---- MODULE Spec2Model ----
(***************************************************************************)
(* A model of the workflow bridge of opencode-duo-workflow: one            *)
(* WorkflowSession (socket, event queue, flags), the sockets it opens, the *)
(* AsyncQueue objects it wires them to, and the DuoWorkflowModel turn      *)
(* (doStream) that consumes the queue and talks to the Host.               *)
(*                                                                         *)
(* JavaScript runs one callback at a time: every action below is one       *)
(* macrotask (a socket event, a timer-free I/O completion, a Host call)    *)
(* or the run of the turn's continuation up to its next real suspension.   *)
(***************************************************************************)
EXTENDS Integers, Sequences, FiniteSets, TLC

(***************************************************************************)
(* Bounds of the model.                                                    *)
(***************************************************************************)
MaxTurns   == 3   \* doStream calls made by the Host
MaxSockets == 2   \* WorkflowWebSocketClient objects ever constructed
MaxActions == 2   \* checkpoints the Service sends
MaxFaults  == 1   \* failures and interruptions: failed calls, socket errors,
                  \* connections the Service ends, aborts by the Host
MaxReqs    == 2   \* tool actions (distinct request IDs) the Service issues
MaxPushes  == 3   \* push() calls on the queue driven on its own
MaxTakes   == 3   \* shift() calls on the queue driven on its own
MaxEntries == 2   \* entries of a checkpoint's ui_chat_log
MaxFeeds   == 3   \* snapshots fed to the differ driven on its own

(***************************************************************************)
(* Strings that the code cuts and joins are sequences of tokens.           *)
(***************************************************************************)
SUB == "_sub_"

\* a request ID of the Service; the decimal digits of n are one token
ReqId(n) == << "r", ToString(n) >>

\* `${event.requestId}_sub_${i}`
SubId(reqId, i) == reqId \o << SUB, ToString(i) >>

\* String.prototype.indexOf("_sub_"), 1-based; 0 stands for JavaScript's -1
IndexOfSub(id) ==
  IF \E i \in 1..Len(id) : id[i] = SUB
  THEN CHOOSE i \in 1..Len(id) : id[i] = SUB /\ \A j \in 1..(i-1) : id[j] # SUB
  ELSE 0

\* result.toolCallId.substring(0, subIdx)
OriginalId(id) == SubSeq(id, 1, IndexOfSub(id) - 1)

RECURSIVE SeqToSet(_)
SeqToSet(s) == IF s = << >> THEN {} ELSE {Head(s)} \cup SeqToSet(Tail(s))

(***************************************************************************)
(* JavaScript values that the mapping code tests by type.                  *)
(***************************************************************************)
Undefined == [t |-> "undefined"]
Str(s)    == [t |-> "string", v |-> s]
Num(n)    == [t |-> "number", v |-> n]

\* asString(value): the string, or undefined
asString(value) == IF value.t = "string" THEN value ELSE Undefined

RECURSIVE FilterStrings(_)
FilterStrings(vs) ==
  IF vs = << >> THEN << >>
  ELSE (IF Head(vs).t = "string" THEN << Head(vs) >> ELSE << >>)
       \o FilterStrings(Tail(vs))

\* asStringArray(value): [] unless an array, else its string elements
asStringArray(value) == IF value.t = "array" THEN FilterStrings(value.v) ELSE << >>

Arr(vs) == [t |-> "array", v |-> vs]

\* The args object of a tool request: null when the Service sent the JSON
\* text "null" as MCP arguments, else the fields the action mapper filled in.
NullArgs == [null |-> TRUE, file_path |-> Undefined, file_paths |-> Undefined]
Args(fp, fps) == [null |-> FALSE, file_path |-> fp, file_paths |-> fps]

\* the parsed JSON text "null"
JsonNull == [t |-> "null"]

\* the args of a shell_command or run_command request
BridgeArgs(command, program, arguments) ==
  [null |-> FALSE, file_path |-> Undefined, file_paths |-> Undefined,
   command |-> command, program |-> program, arguments |-> arguments]

(***************************************************************************)
(* The standalone tool payloads the Service may send (WorkflowToolAction). *)
(***************************************************************************)
ToolPayloads ==
  { [key |-> "runReadFile",  arg |-> Str("a.txt")],
    [key |-> "runReadFiles", arg |-> Arr(<< Str("a.txt"), Num(7), Str("b.txt") >>)],
    [key |-> "runMCPTool",   arg |-> Str("null")],
    [key |-> "runHTTPRequest", arg |-> Str("projects/1")],
    [key |-> "unknown",      arg |-> Undefined] }

NoRequest == [requestId |-> << >>, toolName |-> "", args |-> NullArgs, none |-> TRUE]

\* a mapper that does not look for the requestID
mapActionToToolRequest_anyId(requestID, payload) ==
  IF payload.key = "runReadFile"
  THEN [requestId |-> requestID, toolName |-> "read_file",
        args |-> Args(payload.arg, Undefined), none |-> FALSE]
  ELSE NoRequest

\* mapActionToToolRequest(action): null (NoRequest) without a requestID or a
\* recognised payload.  An MCP tool carries its own name (here that of the
\* native read_file tool, or, as runMCPCommand, that of run_command) and
\* JSON-encoded args; JSON.parse("null") is null.
mapActionToToolRequest(requestID, payload) ==
  IF requestID = << >> THEN NoRequest
  ELSE CASE payload.key = "runMCPTool" ->
              [requestId |-> requestID, toolName |-> "read_file",
               args |-> IF payload.arg = Str("null") THEN NullArgs
                        ELSE Args(Undefined, Undefined), none |-> FALSE]
         [] payload.key = "runReadFile" ->
              [requestId |-> requestID, toolName |-> "read_file",
               args |-> Args(payload.arg, Undefined), none |-> FALSE]
         [] payload.key = "runReadFiles" ->
              [requestId |-> requestID, toolName |-> "read_files",
               args |-> Args(Undefined, payload.arg), none |-> FALSE]
         [] payload.key = "runShellCommand" ->
              [requestId |-> requestID, toolName |-> "shell_command",
               args |-> BridgeArgs(payload.arg, Undefined, Undefined), none |-> FALSE]
         [] payload.key = "runCommand" ->
              [requestId |-> requestID, toolName |-> "run_command",
               args |-> BridgeArgs(Undefined, payload.arg.program, payload.arg.arguments),
               none |-> FALSE]
         [] payload.key = "runMCPCommand" ->
              [requestId |-> requestID, toolName |-> "run_command",
               args |-> IF payload.arg = JsonNull THEN NullArgs ELSE payload.arg,
               none |-> FALSE]
         [] payload.key = "runHTTPRequest" ->
              [requestId |-> requestID, toolName |-> "gitlab_api_request",
               args |-> Args(Undefined, Undefined), none |-> FALSE]
         [] OTHER -> NoRequest

\* A Host tool call { toolName, args }; args.filePath is what the multi-call
\* labels read, args.raw the untouched Service args of a passthrough.
Call(toolName, filePath, raw) ==
  [toolName |-> toolName, args |-> [filePath |-> filePath, raw |-> raw]]

Passthrough(toolName, args) == Call(toolName, Undefined, args)

(***************************************************************************)
(* Bridge programs.  The strings of a bridge request (command, program,    *)
(* payload, the strings inside the payload) are sequences of tokens: a     *)
(* space, a quote, a program name, a whole JSON document, a word.          *)
(***************************************************************************)
SP == " "
SQ == "'"
DQ == "\""

TODO_WRITE_PROGRAM == "__todo_write__"
TODO_READ_PROGRAM  == "__todo_read__"
WEBFETCH_PROGRAM   == "__webfetch__"
QUESTION_PROGRAM   == "__question__"
SKILL_PROGRAM      == "__skill__"

TODO_STATUSES    == { <<"pending">>, <<"in_progress">>, <<"completed">>, <<"cancelled">> }
TODO_PRIORITIES  == { <<"high">>, <<"medium">>, <<"low">> }
WEBFETCH_FORMATS == { <<"text">>, <<"markdown">>, <<"html">> }

\* the Host tool of each bridge program
BridgeTool ==
  [p \in {TODO_READ_PROGRAM, TODO_WRITE_PROGRAM, WEBFETCH_PROGRAM, QUESTION_PROGRAM,
          SKILL_PROGRAM} |->
     CASE p = TODO_READ_PROGRAM  -> "todoread"
       [] p = TODO_WRITE_PROGRAM -> "todowrite"
       [] p = WEBFETCH_PROGRAM   -> "webfetch"
       [] p = QUESTION_PROGRAM   -> "question"
       [] p = SKILL_PROGRAM      -> "skill"]

Bool(b)     == [t |-> "boolean", v |-> b]
Obj(fields) == [t |-> "object", v |-> fields]

\* value.key of a JSON object: undefined when the key is absent
Get(o, key) == IF key \in DOMAIN o.v THEN o.v[key] ELSE Undefined

\* isRecord(value)
isRecord(value) == value.t = "object"

\* `!s` for asString(...) results: undefined or the empty string
Falsy(s) == s = Undefined \/ s.v = << >>

RECURSIVE TrimStart(_)
TrimStart(s) == IF s # << >> /\ Head(s) = SP THEN TrimStart(Tail(s)) ELSE s

RECURSIVE TrimEnd(_)
TrimEnd(s) ==
  IF s # << >> /\ s[Len(s)] = SP THEN TrimEnd(SubSeq(s, 1, Len(s) - 1)) ELSE s

\* String.prototype.trim
Trim(s) == TrimEnd(TrimStart(s))

\* unwrapWrappingQuotes(value): one pair of matching quotes is cut off
unwrapWrappingQuotes(value) ==
  LET trimmed == Trim(value)
  IN IF Len(trimmed) < 2 THEN trimmed
     ELSE IF trimmed[1] = trimmed[Len(trimmed)] /\ trimmed[1] \in {SQ, DQ}
          THEN SubSeq(trimmed, 2, Len(trimmed) - 1)
          ELSE trimmed

\* The JSON documents of this model, by the token that stands for their text.
TodoItem(content, status, priority) ==
  Obj([content |-> content, status |-> status, priority |-> priority])

Option(label, description) == Obj([label |-> label, description |-> description])

JsonDocs ==
  [ todos_ok        |-> Obj([todos |-> Arr(<< TodoItem(Str(<<"x">>), Str(<<"pending">>),
                                                       Str(<<"high">>)) >>)]),
    todos_none      |-> Obj([todos |-> Arr(<< >>)]),
    todos_status    |-> Obj([todos |-> Arr(<< TodoItem(Str(<<"x">>), Str(<<"done">>),
                                                       Str(<<"high">>)) >>)]),
    todos_priority  |-> Obj([todos |-> Arr(<< TodoItem(Str(<<"x">>), Str(<<"pending">>),
                                                       Num(1)) >>)]),
    todos_content   |-> Obj([todos |-> Arr(<< Obj([status |-> Str(<<"pending">>),
                                                   priority |-> Str(<<"low">>)]) >>)]),
    todos_item      |-> Obj([todos |-> Arr(<< Str(<<"x">>) >>)]),
    todos_string    |-> Obj([todos |-> Str(<<"x">>)]),
    fetch_ok        |-> Obj([url |-> Str(<<"https://x">>)]),
    fetch_full      |-> Obj([url |-> Str(<<"https://x">>), format |-> Str(<<"html">>),
                             timeout |-> Num(5)]),
    fetch_nourl     |-> Obj([format |-> Str(<<"text">>)]),
    fetch_format    |-> Obj([url |-> Str(<<"https://x">>), format |-> Str(<<"pdf">>)]),
    fetch_format_no |-> Obj([url |-> Str(<<"https://x">>), format |-> Num(1)]),
    fetch_timeout   |-> Obj([url |-> Str(<<"https://x">>), timeout |-> Num(0)]),
    fetch_timeout_s |-> Obj([url |-> Str(<<"https://x">>), timeout |-> Str(<<"5">>)]),
    ask_ok          |-> Obj([questions |-> Arr(<< Obj([question |-> Str(<<"q">>),
                               header |-> Str(<<"h">>),
                               options |-> Arr(<< Option(Str(<<"a">>), Str(<<"d">>)) >>),
                               multiple |-> Bool(TRUE)]) >>)]),
    ask_none        |-> Obj([questions |-> Arr(<< >>)]),
    ask_header      |-> Obj([questions |-> Arr(<< Obj([question |-> Str(<<"q">>),
                               options |-> Arr(<< Option(Str(<<"a">>), Str(<<"d">>)) >>)]) >>)]),
    ask_options     |-> Obj([questions |-> Arr(<< Obj([question |-> Str(<<"q">>),
                               header |-> Str(<<"h">>), options |-> Arr(<< >>)]) >>)]),
    ask_option      |-> Obj([questions |-> Arr(<< Obj([question |-> Str(<<"q">>),
                               header |-> Str(<<"h">>),
                               options |-> Arr(<< Option(Str(<<"a">>), Str(<< >>)) >>)]) >>)]),
    ask_multiple    |-> Obj([questions |-> Arr(<< Obj([question |-> Str(<<"q">>),
                               header |-> Str(<<"h">>),
                               options |-> Arr(<< Option(Str(<<"a">>), Str(<<"d">>)) >>),
                               multiple |-> Str(<<"yes">>)]) >>)]),
    skill_ok        |-> Obj([name |-> Str(<< SP, "review", SP >>)]),
    skill_blank     |-> Obj([name |-> Str(<< SP >>)]),
    skill_number    |-> Obj([name |-> Num(1)]),
    array           |-> Arr(<< >>),
    number          |-> Num(1) ]

\* JSON.parse(text): a document token parses to its value; a document that
\* holds no quote, between double quotes, is a JSON string; all else throws
JsonParse(text) ==
  IF Len(text) = 1 /\ text[1] \in DOMAIN JsonDocs
  THEN [ok |-> TRUE, value |-> JsonDocs[text[1]]]
  ELSE IF Len(text) = 3 /\ text[1] = DQ /\ text[3] = DQ /\ text[2] \in {"array", "number"}
       THEN [ok |-> TRUE, value |-> Str(<< text[2] >>)]
       ELSE [ok |-> FALSE, value |-> Undefined]

Failed(message) == [ok |-> FALSE, error |-> message, value |-> Undefined]
Parsed(value)   == [ok |-> TRUE, error |-> << >>, value |-> value]

\* parseObjectPayload, after JSON.parse returned or threw
ObjectPayload(parsed, program) ==
  IF ~parsed.ok THEN Failed(<< program, "payload is not valid JSON" >>)
  ELSE IF ~isRecord(parsed.value)
       THEN Failed(<< program, "payload must be a JSON object" >>)
       ELSE Parsed(parsed.value)

\* parseObjectPayload(rawPayload, program)
parseObjectPayload(rawPayload, program) ==
  ObjectPayload(JsonParse(unwrapWrappingQuotes(rawPayload)), program)

\* parsePayloadFromArguments(rawArguments, program)
parsePayloadFromArguments(rawArguments, program) ==
  IF rawArguments.t # "array" \/ rawArguments.v = << >>
  THEN Failed(<< program, "expects JSON payload in arguments[0]" >>)
  ELSE IF rawArguments.v[1].t # "string"
       THEN Failed(<< program, "expects arguments[0] to be a JSON string" >>)
       ELSE Parsed(rawArguments.v[1].v)

\* the smallest of a non-empty set of indices: where a validation loop stops
First(S) == CHOOSE i \in S : \A j \in S : i <= j

\* the index as the error messages print it (JavaScript counts from 0)
Idx(i) == ToString(i - 1)

\* parseTodos(payload): the todos, or the error of the first bad item
parseTodos(payload) ==
  LET rawTodos == Get(payload, "todos")
      error(i) ==
        LET rawTodo == rawTodos.v[i]
        IN IF ~isRecord(rawTodo)
           THEN << TODO_WRITE_PROGRAM, "todos", Idx(i), "must be an object" >>
           ELSE IF asString(Get(rawTodo, "content")) = Undefined
           THEN << TODO_WRITE_PROGRAM, "todos", Idx(i), "content must be a string" >>
           ELSE IF Falsy(asString(Get(rawTodo, "status")))
                   \/ asString(Get(rawTodo, "status")).v \notin TODO_STATUSES
           THEN << TODO_WRITE_PROGRAM, "todos", Idx(i), "status must be one of" >>
           ELSE IF Falsy(asString(Get(rawTodo, "priority")))
                   \/ asString(Get(rawTodo, "priority")).v \notin TODO_PRIORITIES
           THEN << TODO_WRITE_PROGRAM, "todos", Idx(i), "priority must be one of" >>
           ELSE << >>
  IN IF rawTodos.t # "array"
     THEN Failed(<< TODO_WRITE_PROGRAM, "payload must include a todos array" >>)
     ELSE LET bad == {i \in 1..Len(rawTodos.v) : error(i) # << >>}
          IN IF bad # {} THEN Failed(error(First(bad)))
             ELSE Parsed([todos |->
                    [i \in 1..Len(rawTodos.v) |->
                       [content  |-> Get(rawTodos.v[i], "content"),
                        status   |-> Get(rawTodos.v[i], "status"),
                        priority |-> Get(rawTodos.v[i], "priority")]]])

\* parseWebfetchPayload, from the object parseObjectPayload returned
parseWebfetchPayload(payload) ==
  LET url     == asString(Get(payload, "url"))
      format  == asString(Get(payload, "format"))
      timeout == Get(payload, "timeout")
  IN IF Falsy(url)
     THEN Failed(<< WEBFETCH_PROGRAM, "payload must include a url string" >>)
     ELSE IF format # Undefined /\ format.v \notin WEBFETCH_FORMATS
     THEN Failed(<< WEBFETCH_PROGRAM, "format must be one of: text, markdown, html" >>)
     ELSE IF timeout # Undefined /\ (timeout.t # "number" \/ timeout.v <= 0)
     THEN Failed(<< WEBFETCH_PROGRAM, "timeout must be a positive number" >>)
     ELSE Parsed([url |-> url, format |-> format, timeout |-> timeout])

\* parseQuestionPayload, from the object parseObjectPayload returned: the
\* questions, or the error of the first bad question (within it, of the
\* first bad option)
parseQuestionPayload(payload) ==
  LET rawQuestions  == Get(payload, "questions")
      optionError(i, j) ==
        LET rawOption == Get(rawQuestions.v[i], "options").v[j]
        IN IF ~isRecord(rawOption)
           THEN << QUESTION_PROGRAM, "questions", Idx(i), "options", Idx(j),
                   "must be an object" >>
           ELSE IF Falsy(asString(Get(rawOption, "label")))
           THEN << QUESTION_PROGRAM, "questions", Idx(i), "options", Idx(j),
                   "label must be a string" >>
           ELSE IF Falsy(asString(Get(rawOption, "description")))
           THEN << QUESTION_PROGRAM, "questions", Idx(i), "options", Idx(j),
                   "description must be a string" >>
           ELSE << >>
      error(i) ==
        LET rawQuestion == rawQuestions.v[i]
            rawOptions  == Get(rawQuestion, "options")
            bad == {j \in 1..Len(rawOptions.v) : optionError(i, j) # << >>}
        IN IF ~isRecord(rawQuestion)
           THEN << QUESTION_PROGRAM, "questions", Idx(i), "must be an object" >>
           ELSE IF Falsy(asString(Get(rawQuestion, "question")))
           THEN << QUESTION_PROGRAM, "questions", Idx(i), "question must be a string" >>
           ELSE IF Falsy(asString(Get(rawQuestion, "header")))
           THEN << QUESTION_PROGRAM, "questions", Idx(i), "header must be a string" >>
           ELSE IF rawOptions.t # "array" \/ rawOptions.v = << >>
           THEN << QUESTION_PROGRAM, "questions", Idx(i),
                   "options must be a non-empty array" >>
           ELSE IF bad # {} THEN optionError(i, First(bad))
           ELSE IF Get(rawQuestion, "multiple") # Undefined
                   /\ Get(rawQuestion, "multiple").t # "boolean"
           THEN << QUESTION_PROGRAM, "questions", Idx(i), "multiple must be a boolean" >>
           ELSE << >>
      mapped(i) ==
        LET rawQuestion == rawQuestions.v[i]
            rawOptions  == Get(rawQuestion, "options").v
        IN [question |-> Get(rawQuestion, "question"),
            header   |-> Get(rawQuestion, "header"),
            options  |-> [j \in 1..Len(rawOptions) |->
                            [label       |-> Get(rawOptions[j], "label"),
                             description |-> Get(rawOptions[j], "description")]],
            multiple |-> Get(rawQuestion, "multiple")]
  IN IF rawQuestions.t # "array" \/ rawQuestions.v = << >>
     THEN Failed(<< QUESTION_PROGRAM, "payload must include a non-empty questions array" >>)
     ELSE LET bad == {i \in 1..Len(rawQuestions.v) : error(i) # << >>}
          IN IF bad # {} THEN Failed(error(First(bad)))
             ELSE Parsed([questions |-> [i \in 1..Len(rawQuestions.v) |-> mapped(i)]])

\* parseSkillPayload, from the object parseObjectPayload returned: the
\* name is trimmed
parseSkillPayload(payload) ==
  LET raw  == asString(Get(payload, "name"))
      name == IF raw = Undefined THEN Undefined ELSE Str(Trim(raw.v))
  IN IF Falsy(name)
     THEN Failed(<< SKILL_PROGRAM, "payload must include a name string" >>)
     ELSE Parsed([name |-> name])

\* a Host tool call the bridge makes: args.input is the validated input
BridgeCall(toolName, input) ==
  [toolName |-> toolName, args |-> [filePath |-> Undefined, raw |-> Undefined,
                                    input |-> input]]

\* invalidTool(tool, error)
invalidTool(tool, error) == BridgeCall("invalid", [tool |-> tool, error |-> error])

\* the call a map...Payload function returns for a parser's result
ToCall(program, result) ==
  IF ~result.ok THEN invalidTool(BridgeTool[program], result.error)
  ELSE BridgeCall(BridgeTool[program], result.value)

\* validators that take the payload object as it comes
Validated_unchecked(program, payloadResult) == payloadResult

\* the validator of each program, run on a payload that parsed to an object
Validated(program, payloadResult) ==
  IF ~payloadResult.ok THEN payloadResult
  ELSE CASE program = TODO_WRITE_PROGRAM -> parseTodos(payloadResult.value)
         [] program = WEBFETCH_PROGRAM   -> parseWebfetchPayload(payloadResult.value)
         [] program = QUESTION_PROGRAM   -> parseQuestionPayload(payloadResult.value)
         [] program = SKILL_PROGRAM      -> parseSkillPayload(payloadResult.value)

\* mapTodoWritePayload, mapWebfetchPayload, mapQuestionPayload and
\* mapSkillPayload: the dedicated call, or the invalid call with the error
mapPayload(program, rawPayload) ==
  ToCall(program, Validated(program, parseObjectPayload(rawPayload, program)))

\* mapTodoWriteCall, mapWebfetchCall, mapQuestionCall and mapSkillCall
mapCall(program, rawArguments) ==
  IF ~parsePayloadFromArguments(rawArguments, program).ok
  THEN invalidTool(BridgeTool[program], parsePayloadFromArguments(rawArguments, program).error)
  ELSE mapPayload(program, parsePayloadFromArguments(rawArguments, program).value)

NoCall == [toolName |-> "", args |-> [filePath |-> Undefined, raw |-> Undefined]]

\* mapBridgeCommand(command): null (NoCall) unless the command starts with
\* a bridge program
mapBridgeCommand(command) ==
  LET normalized == Trim(command)
      program    == Head(normalized)
  IN IF normalized = << >> \/ program \notin DOMAIN BridgeTool THEN NoCall
     ELSE IF normalized = << TODO_READ_PROGRAM >> THEN BridgeCall("todoread", << >>)
     ELSE IF program = TODO_READ_PROGRAM
     THEN (IF normalized[2] = SP
           THEN invalidTool("todoread", << program, "does not accept a payload" >>)
           ELSE NoCall)
     ELSE IF normalized = << program >>
     THEN invalidTool(BridgeTool[program],
                      << program, "expects JSON payload after command prefix" >>)
     ELSE IF normalized[2] # SP THEN NoCall
     ELSE IF Trim(Tail(normalized)) = << >>
     THEN invalidTool(BridgeTool[program],
                      << program, "expects JSON payload after command prefix" >>)
     ELSE mapPayload(program, Trim(Tail(normalized)))

\* String(a) of an element of the arguments array
StringOf(a) ==
  CASE a.t = "string" -> a.v
    [] a.t = "number" -> << ToString(a.v) >>
    [] OTHER -> << "[object Object]" >>

\* shellQuote(s): left alone when made of safe characters only, else put
\* between single quotes with every inner single quote escaped
shellQuote(s) ==
  IF s # << >> /\ \A i \in 1..Len(s) : s[i] \notin {SP, SQ, DQ} \cup DOMAIN JsonDocs
  THEN s
  ELSE << SQ >> \o [i \in 1..Len(s) |-> IF s[i] = SQ THEN "'\\''" ELSE s[i]] \o << SQ >>

RECURSIVE QuoteAll(_)
\* args.arguments.map((a) => shellQuote(String(a))).join(" ") with a
\* leading space
QuoteAll(as) ==
  IF as = << >> THEN << >>
  ELSE << SP >> \o shellQuote(StringOf(Head(as))) \o QuoteAll(Tail(as))

Bash(command) == BridgeCall("bash", [command |-> command])

\* the shell_command and run_command cases of mapDuoToolRequest, once
\* mapBridgeCommand has returned `bridged` (NoCall also when it is not called)
CommandCalls(toolName, args, bridged) ==
  LET command == asString(args.command)
      program == asString(args.program)
  IN IF bridged # NoCall THEN << bridged >>
     ELSE IF toolName = "shell_command"
     THEN (IF Falsy(command) THEN << Passthrough(toolName, args) >> ELSE << Bash(command.v) >>)
     ELSE IF program = Str(<< TODO_READ_PROGRAM >>) THEN << BridgeCall("todoread", << >>) >>
     ELSE IF program # Undefined /\ Len(program.v) = 1 /\ program.v[1] \in DOMAIN BridgeTool
     THEN << mapCall(program.v[1], args.arguments) >>
     ELSE IF ~Falsy(program)
     THEN << Bash(shellQuote(program.v)
                  \o (IF args.arguments.t = "array" THEN QuoteAll(args.arguments.v)
                      ELSE << >>)) >>
     ELSE IF Falsy(command) THEN << Passthrough(toolName, args) >>
     ELSE << Bash(command.v) >>

\* the shell_command and run_command cases of mapDuoToolRequest
mapCommandRequest(toolName, args) ==
  IF args.null THEN [kind |-> "throws", calls |-> << >>]
  ELSE [kind |-> "scalar",
        calls |-> CommandCalls(toolName, args,
                               IF Falsy(asString(args.command)) THEN NoCall
                               ELSE mapBridgeCommand(asString(args.command).v))]

RECURSIVE MapReads(_)
\* filePaths.map((fp) => ({ toolName: "read", args: { filePath: fp } }))
MapReads(fps) ==
  IF fps = << >> THEN << >>
  ELSE << Call("read", Head(fps), Undefined) >> \o MapReads(Tail(fps))

\* mapDuoToolRequest(toolName, args): [throws], [multi, calls] or [call].
\* Reading a property of null throws a TypeError.
mapDuoToolRequest(toolName, args) ==
  CASE toolName = "read_file" ->
         IF args.null THEN [kind |-> "throws", calls |-> << >>]
         ELSE IF asString(args.file_path) = Undefined
                 \/ asString(args.file_path) = Str("")
              THEN [kind |-> "scalar", calls |-> << Passthrough(toolName, args) >>]
              ELSE [kind |-> "scalar",
                    calls |-> << Call("read", asString(args.file_path), Undefined) >>]
    [] toolName = "read_files" ->
         IF args.null THEN [kind |-> "throws", calls |-> << >>]
         ELSE IF Len(asStringArray(args.file_paths)) = 0
              THEN [kind |-> "scalar", calls |-> << Passthrough(toolName, args) >>]
              ELSE [kind |-> "array",
                    calls |-> MapReads(asStringArray(args.file_paths))]
    [] toolName \in {"shell_command", "run_command"} -> mapCommandRequest(toolName, args)
    [] OTHER -> [kind |-> "scalar", calls |-> << Passthrough(toolName, args) >>]

(***************************************************************************)
(* The checkpoint differ.  Texts are sequences of characters.              *)
(***************************************************************************)
Entry(type, content) == [message_type |-> type, content |-> content]

\* isUiChatLogEntry(value)
isUiChatLogEntry(e) == e.message_type \in {"user", "agent", "tool", "request"}

RECURSIVE FilterEntries(_)
FilterEntries(log) ==
  IF log = << >> THEN << >>
  ELSE (IF isUiChatLogEntry(Head(log)) THEN << Head(log) >> ELSE << >>)
       \o FilterEntries(Tail(log))

\* parseCheckpoint(raw): [] for an empty or unparsable payload or one with no
\* ui_chat_log array, else the validly typed entries
parseCheckpoint(raw) == IF raw.json THEN FilterEntries(raw.log) ELSE << >>

\* String.prototype.startsWith
StartsWith(s, prefix) ==
  Len(prefix) <= Len(s) /\ SubSeq(s, 1, Len(prefix)) = prefix

\* a differ that emits the whole content of every changed entry
DeltaAt_wholeContent(next, previousLog, i) ==
  IF next[i].message_type # "agent" THEN << >>
  ELSE IF i <= Len(previousLog) /\ previousLog[i] = next[i] THEN << >>
  ELSE IF next[i].content # << >> THEN << next[i].content >> ELSE << >>

\* one pass of the loop of extractAgentTextDeltas: what it pushes onto `out`
\* for index i
DeltaAt(next, previousLog, i) ==
  LET item == next[i]
  IN IF item.message_type # "agent" THEN << >>
     ELSE IF i > Len(previousLog) \/ previousLog[i].message_type # "agent"
          THEN (IF item.content # << >> THEN << item.content >> ELSE << >>)
     ELSE IF item.content = previousLog[i].content THEN << >>
     ELSE IF StartsWith(item.content, previousLog[i].content)
          THEN << SubSeq(item.content, Len(previousLog[i].content) + 1,
                         Len(item.content)) >>
     ELSE (IF item.content # << >> THEN << item.content >> ELSE << >>)

RECURSIVE DeltasFrom(_, _, _)
\* the loop of extractAgentTextDeltas from index i on
DeltasFrom(next, previousLog, i) ==
  IF i > Len(next) THEN << >>
  ELSE DeltaAt(next, previousLog, i) \o DeltasFrom(next, previousLog, i + 1)

\* extractAgentTextDeltas(checkpoint, state): the deltas; state.uiChatLog
\* becomes parseCheckpoint(checkpoint)
extractAgentTextDeltas(raw, uiChatLog) == DeltasFrom(parseCheckpoint(raw), uiChatLog, 1)

\* The checkpoint payloads the Service sends in this model.
CkptPayloads ==
  { [json |-> FALSE, log |-> << >>],
    [json |-> TRUE,  log |-> << Entry("agent", << "H", "i" >>) >>] }

(***************************************************************************)
(* Workflow statuses.                                                      *)
(***************************************************************************)
Statuses ==
  { "CREATED", "RUNNING", "FINISHED", "FAILED", "STOPPED", "INPUT_REQUIRED",
    "PLAN_APPROVAL_REQUIRED", "TOOL_CALL_APPROVAL_REQUIRED" }

isTerminal(status)     == status \in {"FINISHED", "FAILED", "STOPPED"}
isTurnBoundary(status) == status \in {"INPUT_REQUIRED", "PLAN_APPROVAL_REQUIRED"}
isToolApproval(status) == status = "TOOL_CALL_APPROVAL_REQUIRED"
isTurnComplete(status) == isTerminal(status) \/ isTurnBoundary(status)

(***************************************************************************)
(* AsyncQueue: values buffered, takers suspended (oldest first), closed.   *)
(* An operation yields the queue after it and the takers it resolved, as   *)
(* pairs << taker, value >>; End is the null a closed queue hands out.     *)
(***************************************************************************)
End == [type |-> "end"]

NewQueue == [values |-> << >>, waiters |-> << >>, closed |-> FALSE]

\* a push that does not look at the closed flag
QueuePush_ignoresClosed(q, value) ==
  IF q.waiters # << >>
  THEN [q |-> [q EXCEPT !.waiters = Tail(@)],
        woken |-> << << Head(q.waiters), value >> >>]
  ELSE [q |-> [q EXCEPT !.values = Append(@, value)], woken |-> << >>]

QueuePush(q, value) ==
  IF q.closed THEN [q |-> q, woken |-> << >>]
  ELSE IF q.waiters # << >>
       THEN [q |-> [q EXCEPT !.waiters = Tail(@)],
             woken |-> << << Head(q.waiters), value >> >>]
       ELSE [q |-> [q EXCEPT !.values = Append(@, value)], woken |-> << >>]

RECURSIVE QueuePushAll(_, _)
QueuePushAll(q, vals) ==
  IF vals = << >> THEN [q |-> q, woken |-> << >>]
  ELSE LET one  == QueuePush(q, Head(vals))
           rest == QueuePushAll(one.q, Tail(vals))
       IN [q |-> rest.q, woken |-> one.woken \o rest.woken]

\* a shift that takes the newest buffered value
QueueShift_takesNewest(q, taker) ==
  IF q.values # << >>
  THEN [q |-> [q EXCEPT !.values = SubSeq(@, 1, Len(@) - 1)],
        woken |-> << << taker, q.values[Len(q.values)] >> >>]
  ELSE IF q.closed THEN [q |-> q, woken |-> << << taker, End >> >>]
  ELSE [q |-> [q EXCEPT !.waiters = Append(@, taker)], woken |-> << >>]

\* shift() by taker: a buffered value, End when closed, else the taker waits
QueueShift(q, taker) ==
  IF q.values # << >>
  THEN [q |-> [q EXCEPT !.values = Tail(@)], woken |-> << << taker, Head(q.values) >> >>]
  ELSE IF q.closed THEN [q |-> q, woken |-> << << taker, End >> >>]
  ELSE [q |-> [q EXCEPT !.waiters = Append(@, taker)], woken |-> << >>]

RECURSIVE WakeAll(_)
WakeAll(waiters) ==
  IF waiters = << >> THEN << >>
  ELSE << << Head(waiters), End >> >> \o WakeAll(Tail(waiters))

\* a close that sets the flag and leaves the suspended takers suspended
QueueClose_keepsWaiters(q) == [q |-> [q EXCEPT !.closed = TRUE], woken |-> << >>]

QueueClose(q) ==
  [q |-> [q EXCEPT !.closed = TRUE, !.waiters = << >>], woken |-> WakeAll(q.waiters)]

(***************************************************************************)
(* State.                                                                  *)
(***************************************************************************)
VARIABLES
  \* WorkflowSession fields (0 stands for undefined)
  workflowId, socket, queue, startRequestSent, pendingApproval, resumed, checkpoint,
  \* the WorkflowWebSocketClient objects and the AsyncQueue objects, by identity
  socks, queues,
  \* DuoWorkflowModel tool tracking
  pendingToolRequests, multiCallGroups, sentToolCallIds, lastSentGoal,
  \* the running doStream call: its position, its locals, the Host-facing stream
  pc, ret, goal, toolResults, sentToolResults, hasText, event, out, abortArmed,
  taken,
  \* the Host and the Service
  hostHistory, turns, nActions, nReqs, nFaults,
  \* history: client events put on the wire during the current turn, the ids
  \* passed to sendToolResult over the session's life, whether a tool-approval
  \* checkpoint has been received with no close callback or teardown since
  wire, forwarded, approvalOpen,
  \* #executeHttpRequest calls whose fetch has not settled
  http,
  \* an AsyncQueue driven on its own: the queue, the values push() was called
  \* with while it was open, the result of every shift() in call order, and
  \* the buffer as close() found it
  aq, aqPushed, aqTakes, aqAtClose,
  \* extractAgentTextDeltas driven on its own (its state is `checkpoint`):
  \* the snapshots fed, the deltas emitted per index, and whether the entry at
  \* an index has been an agent entry growing as a prefix in every snapshot
  fed, emitted, grown,
  \* DuoWorkflowModel's stateSessionId: the Host session its tracking state
  \* belongs to.  It moves only where the adapter serves several sessions.
  stateSessionId

sessionVars == << workflowId, socket, queue, startRequestSent, pendingApproval,
                  resumed, checkpoint, http >>
objectVars  == << socks, queues >>
modelVars   == << pendingToolRequests, multiCallGroups, sentToolCallIds, lastSentGoal >>
turnVars    == << pc, ret, goal, toolResults, sentToolResults, hasText, event, out,
                  abortArmed, taken >>
envVars     == << hostHistory, turns, nActions, nReqs, nFaults >>
histVars    == << wire, forwarded, approvalOpen >>
benchVars   == << aq, aqPushed, aqTakes, aqAtClose, fed, emitted, grown, stateSessionId >>
vars == << sessionVars, objectVars, modelVars, turnVars, envVars, histVars, benchVars >>

SockIds == 1..MaxSockets

NoSocket == [state |-> "unused", queue |-> 0, owner |-> "none", timers |-> FALSE]

\* the identity the next constructed socket gets
NextSock == Cardinality({s \in SockIds : socks[s].state # "unused"}) + 1

CanConstruct == NextSock <= MaxSockets

NoGoal == "null"
Goals  == {"", "fix it"}

NoEvent == [type |-> "none"]

\* the Host session IDs of doStream calls; NoSession is the undefined
\* stateSessionId of a new adapter
SessionIDs == {"ses_a", "ses_b"}
NoSession  == "undefined"

\* close() has not been called on the queue driven on its own
NotClosed == [state |-> "open"]

\* A tool result (or tool error) of the Host's prompt, as extractToolResults
\* yields it
ToolResult(id, failed) ==
  [toolCallId |-> id,
   output |-> IF failed THEN << >> ELSE << "out" >> \o id,
   error  |-> IF failed THEN << "err" >> \o id ELSE Undefined]

\* results that a resumed conversation still carries from an earlier process
StaleResults == << ToolResult(ReqId(0), FALSE), ToolResult(SubId(ReqId(0), 0), FALSE) >>

Init ==
  /\ \E existing \in BOOLEAN :
       /\ workflowId = (IF existing THEN 1 ELSE 0)
       /\ resumed = existing
       /\ hostHistory = (IF existing THEN StaleResults ELSE << >>)
  /\ socket = 0 /\ queue = 0
  /\ startRequestSent = FALSE /\ pendingApproval = FALSE
  /\ checkpoint = << >> /\ http = {}
  /\ socks = [s \in SockIds |-> NoSocket]
  /\ queues = [q \in SockIds |-> NewQueue]
  /\ pendingToolRequests = {} /\ multiCallGroups = << >>
  /\ sentToolCallIds = {} /\ lastSentGoal = NoGoal
  /\ pc = "idle" /\ ret = "none" /\ goal = "" /\ toolResults = << >>
  /\ sentToolResults = FALSE /\ hasText = FALSE /\ event = NoEvent
  /\ out = << >> /\ abortArmed = FALSE /\ taken = << >>
  /\ turns = 0 /\ nActions = 0 /\ nReqs = 0 /\ nFaults = 0
  /\ wire = << >> /\ forwarded = << >> /\ approvalOpen = FALSE
  /\ aq = NewQueue /\ aqPushed = << >> /\ aqTakes = << >> /\ aqAtClose = NotClosed
  /\ fed = 0 /\ emitted = [i \in 1..MaxEntries |-> << >>]
  /\ grown = [i \in 1..MaxEntries |-> TRUE]
  /\ stateSessionId = NoSession

(***************************************************************************)
(* Pieces of WorkflowSession and WorkflowWebSocketClient.                  *)
(***************************************************************************)
\* The turn's continuation is ready to run: promise jobs run before any
\* other callback, so nothing else happens while it is.
TurnRunnable == pc \in {"phase1", "phase2send", "got", "done"}

\* WorkflowWebSocketClient.send(event): put on the wire only when the
\* underlying socket is OPEN; the caller does not look at the result
Frame(ss, by, ev, id, body, s) ==
  [by |-> by, ev |-> ev, id |-> id, body |-> body, sock |-> s,
   delivered |-> (s # 0 /\ ss[s].state = "open")]

\* WorkflowWebSocketClient.close(): stop the timers, start the close handshake
ClientClose(ss, s) ==
  IF s = 0 THEN ss
  ELSE [ss EXCEPT ![s].timers = FALSE,
                  ![s].state = IF @ = "open" THEN "closing" ELSE @,
                  ![s].owner = IF ss[s].state = "open" THEN "client" ELSE @]

\* a teardown that forgets to clear the approval flag
closeConnection_keepsApproval ==
  [pendingApproval |-> pendingApproval, socket |-> 0, queue |-> 0,
   startRequestSent |-> FALSE]

\* a teardown that forgets to drop the socket reference
closeConnection_keepsSocket ==
  [pendingApproval |-> FALSE, socket |-> socket, queue |-> 0, startRequestSent |-> FALSE]

\* #closeConnection(): the fields it assigns
closeConnection ==
  [pendingApproval |-> FALSE, socket |-> 0, queue |-> 0, startRequestSent |-> FALSE]

\* abort() on a session whose socket reference is s: the stopWorkflow it
\* sends, the sockets after socket.close(), the fields #closeConnection leaves
abort(ss, s) ==
  [frames |-> IF s = 0 THEN << >>
              ELSE << Frame(ss, "abort", "stopWorkflow", << >>, "ABORTED", s) >>,
   socks  |-> ClientClose(ss, s),
   fields |-> closeConnection]

ApplyCloseConnection ==
  /\ pendingApproval' = closeConnection.pendingApproval
  /\ socks' = ClientClose(socks, socket)
  /\ socket' = closeConnection.socket
  /\ queue' = closeConnection.queue
  /\ startRequestSent' = closeConnection.startRequestSent
  /\ approvalOpen' = FALSE

\* A suspended shift() of the turn resolved: its continuation becomes ready
Wake(woken) ==
  IF woken = << >> THEN UNCHANGED << pc, event >>
  ELSE pc' = "got" /\ event' = woken[1][2]

\* frames still reach a socket that is open or that this side is closing
CanReceive(s) ==
  \/ socks[s].state = "open"
  \/ socks[s].state = "closing" /\ socks[s].owner = "client"

TextEvents(deltas) ==
  [i \in 1..Len(deltas) |-> [type |-> "text-delta", value |-> deltas[i]]]

\* the flag the tool-approval branch of #handleAction leaves
approvalFlag == TRUE

\* a checkpoint branch that pushes the deltas of a resumed session too
pushedDeltas_always(res, deltas) == TextEvents(deltas)

\* the events the checkpoint branch pushes: none while `resumed`
pushedDeltas(res, deltas) == IF res THEN << >> ELSE TextEvents(deltas)

\* a checkpoint branch that ends the turn on terminal statuses only
closesTurn_terminalOnly(status) == isTerminal(status)

\* whether the checkpoint branch of #handleAction closes queue and connection
closesTurn(status) == ~isToolApproval(status) /\ isTurnComplete(status)

(***************************************************************************)
(* #handleAction(action, queue) for a checkpoint arriving on socket s.     *)
(***************************************************************************)
ServiceCheckpoint(s, status, raw) ==
  /\ ~TurnRunnable /\ nActions < MaxActions /\ CanReceive(s)
  /\ LET q      == socks[s].queue
         deltas == extractAgentTextDeltas(raw, checkpoint)
         pushed == QueuePushAll(queues[q], pushedDeltas(resumed, deltas))
         closed == IF closesTurn(status) THEN QueueClose(pushed.q)
                   ELSE [q |-> pushed.q, woken |-> << >>]
     IN /\ nActions' = nActions + 1
        /\ checkpoint' = parseCheckpoint(raw)
        /\ resumed' = FALSE
        /\ IF isToolApproval(status)
           THEN /\ pendingApproval' = approvalFlag
                /\ approvalOpen' = TRUE
                /\ UNCHANGED << socks, socket, queue, startRequestSent >>
           ELSE IF closesTurn(status)
           THEN ApplyCloseConnection
           ELSE UNCHANGED << pendingApproval, approvalOpen, socks, socket, queue,
                             startRequestSent >>
        /\ queues' = [queues EXCEPT ![q] = closed.q]
        /\ Wake(pushed.woken \o closed.woken)
  /\ UNCHANGED << benchVars, workflowId, http, modelVars, ret, goal, toolResults, sentToolResults,
                  hasText, taken, out, abortArmed, hostHistory, turns, nReqs, nFaults, wire, forwarded >>

(***************************************************************************)
(* #handleAction for a standalone tool action: an HTTP request is run by   *)
(* the session itself, a mapped action becomes a tool-request event, any   *)
(* other is dropped.                                                       *)
(***************************************************************************)
\* a handler that runs no HTTP request itself
handledLocally_never(payload, requestID) == FALSE

\* toolAction.runHTTPRequest && toolAction.requestID
handledLocally(payload, requestID) == payload.key = "runHTTPRequest" /\ requestID # << >>

ServiceTool(s, payload, withId) ==
  /\ ~TurnRunnable /\ CanReceive(s)
  /\ withId => nReqs < MaxReqs
  /\ LET q         == socks[s].queue
         requestID == IF withId THEN ReqId(nReqs + 1) ELSE << >>
         mapped    == mapActionToToolRequest(requestID, payload)
     IN IF handledLocally(payload, requestID)
        THEN /\ http' = http \cup {requestID}
             /\ UNCHANGED << queues, pc, event >>
        ELSE IF ~mapped.none
        THEN LET pushed == QueuePush(queues[q],
                             [type |-> "tool-request", requestId |-> mapped.requestId,
                              toolName |-> mapped.toolName, args |-> mapped.args])
             IN /\ queues' = [queues EXCEPT ![q] = pushed.q]
                /\ Wake(pushed.woken)
                /\ UNCHANGED http
        ELSE UNCHANGED << queues, pc, event, http >>
  /\ nReqs' = IF withId THEN nReqs + 1 ELSE nReqs
  /\ UNCHANGED << benchVars, workflowId, socket, queue, startRequestSent, pendingApproval, resumed,
                  checkpoint, socks, modelVars, ret, goal, toolResults, sentToolResults,
                  hasText, taken, out, abortArmed, hostHistory, turns, nActions, nFaults, histVars >>

\* the socket's error callback (a socket error, or a frame that does not parse)
SocketError(s) ==
  /\ ~TurnRunnable /\ nFaults < MaxFaults /\ CanReceive(s)
  /\ LET q      == socks[s].queue
         pushed == QueuePush(queues[q], [type |-> "error", message |-> "socket"])
     IN /\ queues' = [queues EXCEPT ![q] = pushed.q]
        /\ Wake(pushed.woken)
  /\ nFaults' = nFaults + 1
  /\ UNCHANGED << benchVars, sessionVars, socks, modelVars, ret, goal, toolResults, sentToolResults,
                  hasText, taken, out, abortArmed, hostHistory, turns, nActions, nReqs,
                  histVars >>

(***************************************************************************)
(* The stream's catch block and the end of a turn.                         *)
(***************************************************************************)
Finish(reason) == [type |-> "finish", finishReason |-> reason]

\* a catch block that reports the error and forgets the finish
CatchEvents_noFinish == << [type |-> "error"] >>

\* a catch block that reports the error twice
CatchEvents_twoErrors == << [type |-> "error"], [type |-> "error"], Finish("error") >>

\* the events the catch block of doStream's start callback enqueues
CatchEvents == << [type |-> "error"], Finish("error") >>

\* the last events of the stream and controller.close()
EndTurn(events) ==
  /\ out' = out \o events
  /\ pc' = "done"
  /\ event' = NoEvent

\* a socket object nothing will call again, and the queues no live socket,
\* session field or suspended taker refers to any more, are garbage
Gone(state) == [NoSocket EXCEPT !.state = state]

Live(ss, q) == \E s \in SockIds : ss[s].state \in {"connecting", "open", "closing"}
                                   /\ ss[s].queue = q

Collect(qs, ss, sq) ==
  [q \in SockIds |-> IF q = sq \/ Live(ss, q) \/ qs[q].waiters # << >> THEN qs[q]
                     ELSE NewQueue]

(***************************************************************************)
(* #connectSocket(queue): a new socket, wired to queue q, starts to        *)
(* connect for `owner` (ensureConnected or #reconnectWithApproval).        *)
(***************************************************************************)
Connecting(ss, q, owner) ==
  [ss EXCEPT ![NextSock] = [state |-> "connecting", queue |-> q, owner |-> owner,
                            timers |-> FALSE]]

\* the Service (or the network) ends an open connection; the close event
\* reaches the client later
ServiceClose(s) ==
  /\ ~TurnRunnable /\ nFaults < MaxFaults /\ socks[s].state = "open"
  /\ socks' = [socks EXCEPT ![s].state = "closing", ![s].owner = "service"]
  /\ nFaults' = nFaults + 1
  /\ UNCHANGED << benchVars, sessionVars, queues, modelVars, turnVars, hostHistory, turns,
                  nActions, nReqs, histVars >>

\* a close callback that never reconnects
closeCallback_neverReconnects(pending) ==
  [pendingApproval |-> FALSE, reconnect |-> FALSE, dropQueue |-> TRUE]

\* a close callback that leaves the queue alone
closeCallback_keepsQueue(pending) ==
  [pendingApproval |-> FALSE, reconnect |-> pending, dropQueue |-> FALSE]

\* the fields the close callback assigns besides the socket reference:
\* with an approval pending it reconnects on the same queue, else it drops
\* and closes the queue
closeCallback(pending) ==
  IF pending THEN [pendingApproval |-> FALSE, reconnect |-> TRUE,  dropQueue |-> FALSE]
  ELSE            [pendingApproval |-> pending, reconnect |-> FALSE, dropQueue |-> TRUE]

\* the "close" event of socket s: timers stop, the close callback runs
CloseEvent(s) ==
  /\ ~TurnRunnable /\ socks[s].state = "closing"
  /\ LET q  == socks[s].queue
         cb == closeCallback(pendingApproval)
         gone == [socks EXCEPT ![s] = Gone("closed")]
     IN /\ cb.reconnect => CanConstruct
        /\ socket' = 0
        /\ pendingApproval' = cb.pendingApproval
        /\ socks' = IF cb.reconnect THEN Connecting(gone, q, "reconnect") ELSE gone
        /\ IF cb.dropQueue
           THEN /\ queue' = 0
                /\ queues' = Collect([queues EXCEPT ![q] = QueueClose(queues[q]).q],
                                     socks', queue')
                /\ Wake(QueueClose(queues[q]).woken)
           ELSE UNCHANGED << queue, queues, pc, event >>
  /\ approvalOpen' = FALSE
  /\ UNCHANGED << benchVars, workflowId, startRequestSent, resumed, checkpoint, http, modelVars,
                  ret, goal, toolResults, sentToolResults, hasText, taken, out, abortArmed,
                  envVars, wire, forwarded >>

\* the start request #reconnectWithApproval sends once connected
ApprovalStart(ss, s) == Frame(ss, "reconnectWithApproval", "startRequest", << >>, "approval", s)

\* socket.connect resolved: #connectSocket stores the socket; then either
\* ensureConnected returns to the turn, or #reconnectWithApproval's then-
\* callback sends the approval
ConnectOpen(s) ==
  /\ ~TurnRunnable /\ socks[s].state = "connecting"
  /\ socks' = [socks EXCEPT ![s].state = "open", ![s].timers = TRUE]
  /\ socket' = s
  /\ IF socks[s].owner = "ensure"
     THEN /\ pc' = ret
          /\ UNCHANGED << queues, startRequestSent, wire, event >>
     ELSE IF workflowId = 0
     THEN /\ queues' = [queues EXCEPT ![socks[s].queue] = QueueClose(@).q]
          /\ Wake(QueueClose(queues[socks[s].queue]).woken)
          /\ UNCHANGED << startRequestSent, wire >>
     ELSE /\ wire' = Append(wire, ApprovalStart(socks', s))
          /\ startRequestSent' = TRUE
          /\ UNCHANGED << queues, pc, event >>
  /\ UNCHANGED << benchVars, workflowId, queue, pendingApproval, resumed, checkpoint, http,
                  modelVars, ret, goal, toolResults, sentToolResults, hasText, taken,
                  out, abortArmed, envVars, forwarded, approvalOpen >>

\* socket.connect rejected (error or timeout): ensureConnected throws into
\* the turn's catch block; #reconnectWithApproval's catch drops the queue
ConnectFail(s) ==
  /\ ~TurnRunnable /\ nFaults < MaxFaults /\ socks[s].state = "connecting"
  /\ nFaults' = nFaults + 1
  /\ socks' = [socks EXCEPT ![s] = Gone("failed")]
  /\ IF socks[s].owner = "ensure"
     THEN /\ EndTurn(CatchEvents)
          /\ queues' = Collect(queues, socks', queue)
          /\ UNCHANGED queue
     ELSE /\ queue' = 0
          /\ queues' = Collect([queues EXCEPT ![socks[s].queue] = QueueClose(@).q],
                               socks', queue')
          /\ Wake(QueueClose(queues[socks[s].queue]).woken)
          /\ UNCHANGED out
  /\ UNCHANGED << benchVars, workflowId, socket, startRequestSent, pendingApproval, resumed,
                  checkpoint, http, modelVars, ret, goal, toolResults, sentToolResults,
                  hasText, taken, abortArmed, hostHistory, turns, nActions, nReqs, histVars >>

\* a failure reported with the status and the body of a success
httpResponse_alwaysOk(ok) ==
  [statusCode |-> 200, headers |-> << "content-type" >>, body |-> "{}", error |-> ""]

\* the httpResponse #executeHttpRequest hands to sendHttpResult: the
\* response of the fetch, or (0, {}, "", message) from its catch block
httpResponse(ok) ==
  IF ok THEN [statusCode |-> 200, headers |-> << "content-type" >>, body |-> "{}",
              error |-> ""]
  ELSE [statusCode |-> 0, headers |-> << >>, body |-> "", error |-> "fetch failed"]

\* The fetch of #executeHttpRequest settled (ok: with a response), and
\* sendHttpResult runs.  Without a socket it throws: from the try block into
\* the catch block, whose own sendHttpResult throws again, and the
\* rejection is swallowed by the caller's catch(() => {}).
HttpSettled(id, ok) ==
  /\ ~TurnRunnable /\ id \in http
  /\ http' = http \ {id}
  /\ wire' = IF socket = 0 THEN wire
             ELSE Append(wire, Frame(socks, "sendHttpResult", "actionResponse", id,
                                     httpResponse(ok), socket))
  /\ UNCHANGED << benchVars, workflowId, socket, queue, startRequestSent, pendingApproval, resumed,
                  checkpoint, objectVars, modelVars, turnVars, envVars, forwarded,
                  approvalOpen >>

\* the Host's abort signal fires: session.abort()
Abort ==
  /\ ~TurnRunnable /\ nFaults < MaxFaults /\ abortArmed
  /\ nFaults' = nFaults + 1
  /\ abortArmed' = FALSE
  /\ wire' = wire \o abort(socks, socket).frames
  /\ ApplyCloseConnection
  /\ UNCHANGED << benchVars, workflowId, resumed, checkpoint, http, queues, modelVars, pc, ret,
                  goal, toolResults, sentToolResults, hasText, taken, event, out, hostHistory,
                  turns, nActions, nReqs, forwarded >>

(***************************************************************************)
(* doStream: the start of a turn.                                          *)
(***************************************************************************)
RECURSIVE ResultIds(_)
ResultIds(results) ==
  IF results = << >> THEN {} ELSE {Head(results).toolCallId} \cup ResultIds(Tail(results))

\* a pre-population that takes every result of the prompt for sent
prepopulated_all(results, pending) == ResultIds(results)

\* sentToolCallIds after the pre-population of a turn that finds the session
\* not started: cleared, then every result id that is not pending
prepopulated(results, pending) == {id \in ResultIds(results) : id \notin pending}

\* ensureConnected: the body from the creation of the queue on
StartConnect(retpc) ==
  /\ CanConstruct
  /\ queue' = NextSock
  /\ socks' = Connecting(socks, NextSock, "ensure")
  /\ queues' = Collect([queues EXCEPT ![NextSock] = NewQueue], socks', queue')
  /\ pc' = "connecting"
  /\ ret' = retpc

\* whether ensureConnected returns at once
connected == socket # 0 /\ queue # 0

\* an ensureConnected that creates a workflow whenever it has to connect
EnsureConnected_alwaysCreates(retpc) ==
  IF connected
  THEN pc' = retpc /\ UNCHANGED << ret, queue, queues, socks >>
  ELSE pc' = "creating" /\ ret' = retpc /\ UNCHANGED << queue, queues, socks >>

\* ensureConnected(goal), up to its first suspension
EnsureConnected(retpc) ==
  IF connected
  THEN pc' = retpc /\ UNCHANGED << ret, queue, queues, socks >>
  ELSE IF workflowId = 0
  THEN pc' = "creating" /\ ret' = retpc /\ UNCHANGED << queue, queues, socks >>
  ELSE StartConnect(retpc)

TurnStart(g) ==
  /\ pc = "idle" /\ turns < MaxTurns
  /\ turns' = turns + 1
  /\ goal' = g
  /\ toolResults' = hostHistory
  /\ out' = << [type |-> "stream-start"] >>
  /\ abortArmed' = TRUE
  /\ sentToolResults' = FALSE /\ hasText' = FALSE /\ taken' = << >>
  /\ wire' = << >>
  /\ IF ~startRequestSent
     THEN /\ sentToolCallIds' = prepopulated(hostHistory, pendingToolRequests)
          /\ lastSentGoal' = NoGoal
     ELSE UNCHANGED << sentToolCallIds, lastSentGoal >>
  /\ EnsureConnected("phase1")
  /\ UNCHANGED << benchVars, workflowId, socket, startRequestSent, pendingApproval, resumed,
                  checkpoint, http, pendingToolRequests, multiCallGroups, event,
                  hostHistory, nActions, nReqs, nFaults, forwarded, approvalOpen >>

\* #createWorkflow answered with an id
CreateWorkflowOk ==
  /\ pc = "creating"
  /\ workflowId' = 2
  /\ StartConnect(ret)
  /\ UNCHANGED << benchVars, socket, startRequestSent, pendingApproval, resumed, checkpoint, http,
                  modelVars, goal, toolResults, sentToolResults, hasText, taken, event, out,
                  abortArmed, envVars, histVars >>

\* #createWorkflow threw (request failed, or the response carries no id)
CreateWorkflowFail ==
  /\ pc = "creating" /\ nFaults < MaxFaults
  /\ nFaults' = nFaults + 1
  /\ EndTurn(CatchEvents)
  /\ UNCHANGED << benchVars, sessionVars, objectVars, modelVars, ret, goal, toolResults,
                  sentToolResults, hasText, taken, abortArmed, hostHistory, turns, nActions,
                  nReqs, histVars >>

(***************************************************************************)
(* Phase 1: forward fresh tool results.                                    *)
(***************************************************************************)
RECURSIVE FilterFresh(_, _)
\* toolResults.filter((r) => !sentToolCallIds.has(r.toolCallId))
FilterFresh(results, sent) ==
  IF results = << >> THEN << >>
  ELSE (IF Head(results).toolCallId \in sent THEN << >> ELSE << Head(results) >>)
       \o FilterFresh(Tail(results), sent)

\* labels[i] || `file_${i}` (i counted from 0)
LabelOf(group, i) ==
  IF group.labels[i + 1] # "" THEN << group.labels[i + 1] >> ELSE << "file_", ToString(i) >>

\* collected.get(subIds[i]) ?? ""
CollectedOf(group, collected, i) ==
  IF group.subIds[i + 1] \in DOMAIN collected THEN collected[group.subIds[i + 1]]
  ELSE << >>

\* an aggregate keyed by the sub-call IDs
AggregateResult_keyedBySubId(group, collected) ==
  [id \in DOMAIN collected |-> [content |-> collected[id]]]

\* The object the aggregation loop builds: one key per distinct label, a
\* later index overwriting an earlier one with the same label.
AggregateResult(group, collected) ==
  LET n == Len(group.subIds)
      last(l) == CHOOSE i \in 0..(n - 1) :
                   /\ LabelOf(group, i) = l
                   /\ \A j \in (i + 1)..(n - 1) : LabelOf(group, j) # l
  IN [l \in {LabelOf(group, i) : i \in 0..(n - 1)} |->
        [content |-> CollectedOf(group, collected, last(l))]]

\* session.sendToolResult(requestId, output, error): the actionResponse
ToolResponse(requestId, output, error) ==
  [id |-> requestId,
   body |-> [response |-> output, error |-> IF error = Undefined THEN << >> ELSE error]]

\* whether a fresh single result is forwarded
forwardsSingle(id, pending) == id \in pending

\* a tracking update that leaves the forwarded id pending
markForwarded_keepsPending(st, id) == [st EXCEPT !.sent = @ \cup {id}]

\* the tracking after a result has gone to sendToolResult: its id is sent
\* and no longer pending
markForwarded(st, id) ==
  [st EXCEPT !.sent = @ \cup {id}, !.pending = @ \ {id}]

\* One pass of the Phase-1 loop body over `result`.  st carries the tracking
\* state, the responses sent so far, and whether sendToolResult threw.
Phase1Step(st, result) ==
  LET id == result.toolCallId
  IN IF st.threw THEN st
     ELSE IF IndexOfSub(id) # 0
     THEN LET originalId == OriginalId(id)
          IN IF originalId \notin DOMAIN st.groups
             THEN [st EXCEPT !.sent = @ \cup {id}]
             ELSE LET group == st.groups[originalId]
                      value == IF result.error # Undefined THEN result.error
                               ELSE result.output
                      collected == (id :> value) @@ group.collected
                      st1 == [st EXCEPT !.groups[originalId].collected = collected,
                                        !.sent = @ \cup {id},
                                        !.pending = @ \ {id}]
                  IN IF Cardinality(DOMAIN collected) = Len(group.subIds)
                     THEN IF socket = 0 THEN [st1 EXCEPT !.threw = TRUE]
                          ELSE [st1 EXCEPT
                                  !.responses = Append(@, ToolResponse(originalId,
                                                  AggregateResult(group, collected),
                                                  Undefined)),
                                  !.groups = [g \in DOMAIN st.groups \ {originalId} |->
                                                st1.groups[g]],
                                  !.pending = @ \ {originalId},
                                  !.flag = TRUE]
                     ELSE st1
     ELSE IF ~forwardsSingle(id, st.pending)
     THEN [st EXCEPT !.sent = @ \cup {id}]
     ELSE IF socket = 0 THEN [st EXCEPT !.threw = TRUE]
     ELSE markForwarded(
            [st EXCEPT !.responses = Append(@, ToolResponse(id, result.output, result.error)),
                       !.flag = TRUE], id)

RECURSIVE Phase1Loop(_, _)
Phase1Loop(st, results) ==
  IF results = << >> THEN st
  ELSE Phase1Loop(Phase1Step(st, Head(results)), Tail(results))

\* the whole of Phase 1 on the current state
Phase1Result ==
  Phase1Loop([pending |-> pendingToolRequests, groups |-> multiCallGroups,
              sent |-> sentToolCallIds, responses |-> << >>, flag |-> FALSE,
              threw |-> FALSE],
             FilterFresh(toolResults, sentToolCallIds))

ResponseFrames(responses) ==
  [i \in 1..Len(responses) |->
     Frame(socks, "sendToolResult", "actionResponse", responses[i].id,
           responses[i].body, socket)]

ResponseIds(responses) == [i \in 1..Len(responses) |-> responses[i].id]

\* a test that takes any goal for new
isNewGoal_anyGoal == goal # ""

\* goal && goal !== lastSentGoal
isNewGoal == goal # "" /\ goal # lastSentGoal

\* a Phase-2 guard that does not look at what Phase 1 sent
sendsGoal_ignoresResults(sentResults, newGoal) == newGoal

\* the guard of Phase 2
sendsGoal(sentResults, newGoal) == ~sentResults /\ newGoal

\* session.waitForEvent() at the top of the Phase-3 loop: null without a
\* queue, else queue.shift(), which hands over a buffered value (or the end
\* of a closed queue) or suspends the turn
WaitForEvent ==
  IF queue = 0
  THEN pc' = "got" /\ event' = End /\ UNCHANGED queues
  ELSE LET shifted == QueueShift(queues[queue], "turn")
       IN /\ queues' = [queues EXCEPT ![queue] = shifted.q]
          /\ IF shifted.woken = << >>
             THEN pc' = "waiting" /\ event' = NoEvent
             ELSE pc' = "got" /\ event' = shifted.woken[1][2]

(***************************************************************************)
(* Phase 1 and the guard of Phase 2: forward the fresh tool results, then  *)
(* either connect for a start request or wait for the first event.         *)
(***************************************************************************)
Phase1 ==
  /\ pc = "phase1"
  /\ LET r == Phase1Result
     IN /\ pendingToolRequests' = r.pending
        /\ multiCallGroups' = r.groups
        /\ sentToolCallIds' = r.sent
        /\ sentToolResults' = r.flag
        /\ wire' = wire \o ResponseFrames(r.responses)
        /\ forwarded' = forwarded \o ResponseIds(r.responses)
        /\ IF r.threw
           THEN EndTurn(CatchEvents) /\ UNCHANGED << ret, queue, objectVars >>
           ELSE IF sendsGoal(r.flag, isNewGoal)
           THEN EnsureConnected("phase2send") /\ UNCHANGED << out, event >>
           ELSE WaitForEvent /\ UNCHANGED << out, ret, queue, socks >>
  /\ UNCHANGED << benchVars, workflowId, socket, startRequestSent, pendingApproval, resumed,
                  checkpoint, http, lastSentGoal, goal, toolResults, hasText, taken,
                  abortArmed, envVars, approvalOpen >>

(***************************************************************************)
(* Phase 2 after its ensureConnected: sendStartRequest unless the session  *)
(* has started, then lastSentGoal = goal, then the first waitForEvent.     *)
(***************************************************************************)
Phase2Send ==
  /\ pc = "phase2send"
  /\ IF ~startRequestSent /\ (socket = 0 \/ workflowId = 0)
     THEN /\ EndTurn(CatchEvents)
          /\ UNCHANGED << startRequestSent, wire, lastSentGoal, queues >>
     ELSE /\ IF ~startRequestSent
             THEN /\ wire' = Append(wire, Frame(socks, "sendStartRequest", "startRequest",
                                                << >>, goal, socket))
                  /\ startRequestSent' = TRUE
             ELSE UNCHANGED << wire, startRequestSent >>
          /\ lastSentGoal' = goal
          /\ WaitForEvent
          /\ UNCHANGED out
  /\ UNCHANGED << benchVars, workflowId, socket, queue, pendingApproval, resumed, checkpoint, http,
                  socks, pendingToolRequests, multiCallGroups, sentToolCallIds,
                  ret, goal, toolResults, sentToolResults, hasText, taken, abortArmed, envVars,
                  forwarded, approvalOpen >>

(***************************************************************************)
(* Phase 3: consume the session's events.                                  *)
(***************************************************************************)
\* a turn that never closes its text block
TextEnd_never == << >>

\* `if (hasText) controller.enqueue({ type: "text-end", id: textId })`
TextEnd == IF hasText THEN << [type |-> "text-end"] >> ELSE << >>

\* the loop's text-delta branch
OnTextDelta ==
  /\ pc = "got" /\ event.type = "text-delta"
  /\ IF event.value = << >>
     THEN UNCHANGED << hasText, out >>
     ELSE /\ hasText' = TRUE
          /\ out' = out \o (IF hasText THEN << >> ELSE << [type |-> "text-start"] >>)
                        \o << [type |-> "text-delta", delta |-> event.value] >>
  /\ WaitForEvent
  /\ UNCHANGED << benchVars, sessionVars, socks, modelVars, ret, goal, toolResults,
                  sentToolResults, taken, abortArmed, envVars, histVars >>

\* sub-IDs numbered from 1
SubIds_fromOne(requestId, n) == [i \in 1..n |-> SubId(requestId, i)]

\* subIds = mapped.map((_, i) => `${event.requestId}_sub_${i}`)
SubIds(requestId, n) == [i \in 1..n |-> SubId(requestId, i - 1)]

\* String(m.args.filePath ?? m.args.path ?? "")
Labels(calls) ==
  [i \in 1..Len(calls) |->
     IF calls[i].args.filePath # Undefined THEN calls[i].args.filePath.v ELSE ""]

\* the four stream parts of one tool call
ToolCallParts(id, call) ==
  << [type |-> "tool-input-start", id |-> id, toolName |-> call.toolName],
     [type |-> "tool-input-delta", id |-> id, delta |-> call.args],
     [type |-> "tool-input-end", id |-> id],
     [type |-> "tool-call", toolCallId |-> id, toolName |-> call.toolName,
      input |-> call.args] >>

RECURSIVE ExpandedParts(_, _, _)
ExpandedParts(subIds, calls, i) ==
  IF i > Len(calls) THEN << >>
  ELSE ToolCallParts(subIds[i], calls[i]) \o ExpandedParts(subIds, calls, i + 1)

\* a registration that leaves the sub-call IDs out of the pending set
pendingIds_requestOnly(requestId, mapped) == {requestId}

\* the ids a tool request marks pending
pendingIds(requestId, mapped) ==
  IF mapped.kind = "array"
  THEN {requestId} \cup SeqToSet(SubIds(requestId, Len(mapped.calls)))
  ELSE {requestId}

\* tool calls that always carry a sub-ID
callIds_alwaysSub(requestId, mapped) == SubIds(requestId, Len(mapped.calls))

\* the ids of the tool calls a tool request puts on the stream
callIds(requestId, mapped) ==
  IF mapped.kind = "array" THEN SubIds(requestId, Len(mapped.calls))
  ELSE << requestId >>

\* The results the Host will hold for the calls of a turn once it has run
\* them.  The Host's workspace has no b.txt: reading it is a tool error.
HostResults(ids, calls) ==
  [i \in 1..Len(ids) |-> ToolResult(ids[i], calls[i].args.filePath = Str("b.txt"))]

\* multiCallGroups after the tool-request branch has registered the request
GroupsAfter(groups, requestId, mapped) ==
  IF mapped.kind = "array"
  THEN (requestId :>
          [subIds |-> SubIds(requestId, Len(mapped.calls)),
           labels |-> Labels(mapped.calls), collected |-> << >>]) @@ groups
  ELSE groups

\* a tool-request branch that emits the calls and no finish
ToolCallEvents_noFinish(ids, calls) == TextEnd \o ExpandedParts(ids, calls, 1)

\* everything the tool-request branch puts on the stream
ToolCallEvents(ids, calls) ==
  TextEnd \o ExpandedParts(ids, calls, 1) \o << Finish("tool-calls") >>

\* the loop's tool-request branch: a request whose mapping throws is
\* skipped; any other ends the turn with its tool calls
OnToolRequest ==
  /\ pc = "got" /\ event.type = "tool-request"
  /\ taken' = Append(taken, event)
  /\ LET mapped == mapDuoToolRequest(event.toolName, event.args)
         ids    == callIds(event.requestId, mapped)
     IN IF mapped.kind = "throws"
        THEN /\ WaitForEvent
             /\ UNCHANGED << pendingToolRequests, multiCallGroups, out, hostHistory >>
        ELSE /\ multiCallGroups' = GroupsAfter(multiCallGroups, event.requestId, mapped)
             /\ pendingToolRequests' =
                  pendingToolRequests \cup pendingIds(event.requestId, mapped)
             /\ EndTurn(ToolCallEvents(ids, mapped.calls))
             /\ hostHistory' = hostHistory \o HostResults(ids, mapped.calls)
             /\ UNCHANGED queues
  /\ UNCHANGED << benchVars, sessionVars, socks, sentToolCallIds, lastSentGoal, ret, goal,
                  toolResults, sentToolResults, hasText, abortArmed, turns, nActions,
                  nReqs, nFaults, histVars >>

\* the loop's error branch
OnError ==
  /\ pc = "got" /\ event.type = "error"
  /\ EndTurn(CatchEvents)
  /\ UNCHANGED << benchVars, sessionVars, objectVars, modelVars, ret, goal, toolResults,
                  sentToolResults, hasText, taken, abortArmed, envVars, histVars >>

\* waitForEvent returned null: the stream ended normally
OnEnd ==
  /\ pc = "got" /\ event.type = "end"
  /\ EndTurn(TextEnd \o << Finish("stop") >>)
  /\ UNCHANGED << benchVars, sessionVars, objectVars, modelVars, ret, goal, toolResults,
                  sentToolResults, hasText, taken, abortArmed, envVars, histVars >>

\* the finally block: the abort listener is removed and the call's locals,
\* its stream and its record of sent frames go with the call
Finally ==
  /\ pc = "done"
  /\ pc' = "idle"
  /\ abortArmed' = FALSE
  /\ ret' = "none" /\ goal' = "" /\ toolResults' = << >>
  /\ sentToolResults' = FALSE /\ hasText' = FALSE /\ taken' = << >>
  /\ out' = << >> /\ wire' = << >>
  /\ UNCHANGED << benchVars, sessionVars, objectVars, modelVars, event, envVars, forwarded,
                  approvalOpen >>

(***************************************************************************)
(* The specification.                                                      *)
(***************************************************************************)
Next ==
  \/ \E g \in Goals : TurnStart(g)
  \/ CreateWorkflowOk
  \/ CreateWorkflowFail
  \/ \E s \in SockIds : ConnectOpen(s)
  \/ \E s \in SockIds : ConnectFail(s)
  \/ Phase1
  \/ Phase2Send
  \/ OnTextDelta
  \/ OnToolRequest
  \/ OnError
  \/ OnEnd
  \/ Finally
  \/ Abort
  \/ \E s \in SockIds, status \in Statuses, raw \in CkptPayloads :
       ServiceCheckpoint(s, status, raw)
  \/ \E s \in SockIds, payload \in ToolPayloads, withId \in BOOLEAN :
       ServiceTool(s, payload, withId)
  \/ \E s \in SockIds : SocketError(s)
  \/ \E s \in SockIds : ServiceClose(s)
  \/ \E s \in SockIds : CloseEvent(s)
  \/ \E id \in http, ok \in BOOLEAN : HttpSettled(id, ok)

Spec == Init /\ [][Next]_vars

(***************************************************************************)
(* The approval handoff: a started session has received a                  *)
(* TOOL_CALL_APPROVAL_REQUIRED checkpoint, the Service has closed the      *)
(* stream, as it does after that checkpoint, and the close callback has    *)
(* started #reconnectWithApproval: a new socket, wired to the old queue,   *)
(* is connecting (the closed socket is garbage).  The checkpoint came      *)
(* either under a turn that is suspended in Phase 3, or after the turn     *)
(* had ended with the tool call of a read_file request that the Host is    *)
(* now running.  From there on the session and the turn run as in Spec     *)
(* (the workflow exists: nothing creates one).                             *)
(***************************************************************************)
ApprovalRequest ==
  mapActionToToolRequest(ReqId(1), [key |-> "runReadFile", arg |-> Str("a.txt")])

ApprovalCall == mapDuoToolRequest(ApprovalRequest.toolName, ApprovalRequest.args)

ApprovalInit ==
  /\ workflowId = 2 /\ resumed = FALSE
  /\ socket = 0 /\ queue = 1
  /\ startRequestSent = TRUE /\ pendingApproval = FALSE
  /\ checkpoint = << >> /\ http = {}
  /\ socks = [s \in SockIds |->
                IF s = 1 THEN [state |-> "connecting", queue |-> 1, owner |-> "reconnect",
                               timers |-> FALSE]
                ELSE NoSocket]
  /\ multiCallGroups = << >> /\ sentToolCallIds = {} /\ lastSentGoal = "fix it"
  /\ ret = "phase1" /\ toolResults = << >>
  /\ sentToolResults = FALSE /\ hasText = FALSE /\ event = NoEvent
  /\ taken = << >> /\ turns = 1 /\ nActions = 1 /\ nFaults = 0
  /\ forwarded = << >> /\ approvalOpen = FALSE
  /\ \E suspended \in BOOLEAN :
       IF suspended
       THEN /\ pc = "waiting" /\ goal = "fix it" /\ abortArmed = TRUE
            /\ out = << [type |-> "stream-start"] >>
            /\ wire = << [by |-> "sendStartRequest", ev |-> "startRequest", id |-> << >>,
                          body |-> "fix it", sock |-> 0, delivered |-> TRUE] >>
            /\ queues = [q \in SockIds |->
                           IF q = 1 THEN QueueShift(NewQueue, "turn").q ELSE NewQueue]
            /\ pendingToolRequests = {} /\ hostHistory = << >> /\ nReqs = 0
       ELSE /\ pc = "idle" /\ goal = "" /\ abortArmed = FALSE
            /\ out = << >> /\ wire = << >>
            /\ queues = [q \in SockIds |-> NewQueue]
            /\ pendingToolRequests = pendingIds(ReqId(1), ApprovalCall)
            /\ hostHistory = HostResults(callIds(ReqId(1), ApprovalCall), ApprovalCall.calls)
            /\ nReqs = 1
  /\ aq = NewQueue /\ aqPushed = << >> /\ aqTakes = << >> /\ aqAtClose = NotClosed
  /\ fed = 0 /\ emitted = [i \in 1..MaxEntries |-> << >>]
  /\ grown = [i \in 1..MaxEntries |-> TRUE]
  /\ stateSessionId = NoSession

ApprovalNext ==
  \/ \E g \in Goals : TurnStart(g)
  \/ \E s \in SockIds : ConnectOpen(s)
  \/ \E s \in SockIds : ConnectFail(s)
  \/ Phase1
  \/ Phase2Send
  \/ OnTextDelta
  \/ OnToolRequest
  \/ OnError
  \/ OnEnd
  \/ Finally
  \/ Abort
  \/ \E s \in SockIds, status \in Statuses, raw \in CkptPayloads :
       ServiceCheckpoint(s, status, raw)
  \/ \E s \in SockIds, payload \in ToolPayloads, withId \in BOOLEAN :
       ServiceTool(s, payload, withId)
  \/ \E s \in SockIds : SocketError(s)
  \/ \E s \in SockIds : ServiceClose(s)
  \/ \E s \in SockIds : CloseEvent(s)
  \/ \E id \in http, ok \in BOOLEAN : HttpSettled(id, ok)

SpecApproval == ApprovalInit /\ [][ApprovalNext]_vars

(***************************************************************************)
(* Bridge requests: a turn of a started session waits in Phase 3 and the   *)
(* Service sends shell and command actions, most of which address a bridge *)
(* program, with the payload in arguments[0] or after the program name in  *)
(* the command.                                                            *)
(***************************************************************************)
\* payload texts: each JSON document bare, some between quotes or spaces,
\* and text that is no JSON
PayloadTexts ==
  { << d >> : d \in DOMAIN JsonDocs }
  \cup { << SQ, "todos_ok", SQ >>, << DQ, "fetch_ok", DQ >>, << SP, "ask_ok", SP >>,
         << SQ, SQ, "skill_ok", SQ, SQ >>, << DQ, "number", DQ >>, << "{not json" >>,
         << SQ >> }

BridgePayloads ==
  { [key |-> "runShellCommand", arg |-> Str(<< p, SP >> \o text)] :
      p \in DOMAIN BridgeTool, text \in PayloadTexts }
  \cup { [key |-> "runShellCommand", arg |-> Str(command)] :
           command \in { << p >> : p \in DOMAIN BridgeTool }
                       \cup { << SP, p, SP >> : p \in DOMAIN BridgeTool }
                       \cup { << TODO_WRITE_PROGRAM, "x" >>, << "ls" >>, << >> } }
  \cup { [key |-> "runCommand",
          arg |-> [program |-> Str(<< p >>), arguments |-> Arr(<< Str(text) >>)]] :
           p \in DOMAIN BridgeTool, text \in PayloadTexts }
  \cup { [key |-> "runCommand", arg |-> [program |-> Str(<< p >>), arguments |-> a]] :
           p \in DOMAIN BridgeTool \cup {"ls"},
           a \in { Undefined, Arr(<< >>), Arr(<< Num(1) >>),
                   Arr(<< Str(<< "a", SP, "b" >>), Num(1) >>) } }
  \cup { [key |-> "runMCPCommand", arg |-> BridgeArgs(Str(<< p, SP >> \o text), program,
                                                      Undefined)] :
           p \in DOMAIN BridgeTool, text \in { << "todos_ok" >>, << "fetch_format" >> },
           program \in { Undefined, Str(<< "ls" >>) } }
  \cup { [key |-> "runMCPCommand", arg |-> JsonNull] }

WaitingInit ==
  /\ workflowId = 2 /\ resumed = FALSE /\ hostHistory = << >>
  /\ socket = 1 /\ queue = 1
  /\ startRequestSent = TRUE /\ pendingApproval = FALSE
  /\ checkpoint = << >> /\ http = {}
  /\ socks = [s \in SockIds |->
                IF s = 1 THEN [state |-> "open", queue |-> 1, owner |-> "ensure",
                               timers |-> TRUE]
                ELSE NoSocket]
  /\ queues = [q \in SockIds |-> IF q = 1 THEN QueueShift(NewQueue, "turn").q ELSE NewQueue]
  /\ pendingToolRequests = {} /\ multiCallGroups = << >>
  /\ sentToolCallIds = {} /\ lastSentGoal = "fix it"
  /\ pc = "waiting" /\ ret = "phase1" /\ goal = "fix it" /\ toolResults = << >>
  /\ sentToolResults = FALSE /\ hasText = FALSE /\ event = NoEvent
  /\ out = << [type |-> "stream-start"] >> /\ abortArmed = TRUE /\ taken = << >>
  /\ turns = 1 /\ nActions = 0 /\ nReqs = 0 /\ nFaults = 0
  /\ wire = << [by |-> "sendStartRequest", ev |-> "startRequest", id |-> << >>,
                body |-> "fix it", sock |-> 1, delivered |-> TRUE] >>
  /\ forwarded = << >> /\ approvalOpen = FALSE
  /\ aq = NewQueue /\ aqPushed = << >> /\ aqTakes = << >> /\ aqAtClose = NotClosed
  /\ fed = 0 /\ emitted = [i \in 1..MaxEntries |-> << >>]
  /\ grown = [i \in 1..MaxEntries |-> TRUE]
  /\ stateSessionId = NoSession

BridgeNext ==
  \/ pc = "waiting" /\ \E s \in SockIds, payload \in BridgePayloads :
                          ServiceTool(s, payload, TRUE)
  \/ OnToolRequest
  \/ Finally

SpecBridge == WaitingInit /\ [][BridgeNext]_vars

(***************************************************************************)
(* Text streaming: a turn of a started session waits in Phase 3 while the  *)
(* Service sends checkpoints whose agent text grows, tool actions, and the *)
(* socket fails or is closed by a turn-complete checkpoint.                *)
(***************************************************************************)
TextPayloads ==
  CkptPayloads \cup { [json |-> TRUE, log |-> << Entry("agent", << "H", "i", "!" >>) >>] }

TextNext ==
  \/ \E s \in SockIds, status \in Statuses, raw \in TextPayloads :
       ServiceCheckpoint(s, status, raw)
  \/ \E s \in SockIds, payload \in ToolPayloads, withId \in BOOLEAN :
       ServiceTool(s, payload, withId)
  \/ \E s \in SockIds : SocketError(s)
  \/ \E s \in SockIds : CloseEvent(s)
  \/ OnTextDelta
  \/ OnToolRequest
  \/ OnError
  \/ OnEnd
  \/ Finally

SpecText == WaitingInit /\ [][TextNext]_vars

(***************************************************************************)
(* The AsyncQueue on its own: a producer that calls push() and close(), and *)
(* a consumer that calls shift(), in any interleaving.  The k-th push       *)
(* carries the value Item(k); the k-th shift is taker k.                    *)
(***************************************************************************)
mainVars == << sessionVars, objectVars, modelVars, turnVars, envVars, histVars >>

Item(k) == [type |-> "text-delta", value |-> << ToString(k) >>]

\* the promise of a shift() that has not been resolved
Pending == [type |-> "pending"]

RECURSIVE Resolve(_, _)
\* the results of the shift() calls once the takers in `woken` are resolved
Resolve(takes, woken) ==
  IF woken = << >> THEN takes
  ELSE Resolve([takes EXCEPT ![Head(woken)[1]] = Head(woken)[2]], Tail(woken))

AqPush ==
  /\ Len(aqPushed) < MaxPushes
  /\ LET value == Item(Len(aqPushed) + 1)
         r     == QueuePush(aq, value)
     IN /\ aq' = r.q
        /\ aqTakes' = Resolve(aqTakes, r.woken)
        /\ aqPushed' = Append(aqPushed, value)
  /\ UNCHANGED << mainVars, aqAtClose, fed, emitted, grown, stateSessionId >>

AqShift ==
  /\ Len(aqTakes) < MaxTakes
  /\ LET r == QueueShift(aq, Len(aqTakes) + 1)
     IN /\ aq' = r.q
        /\ aqTakes' = Resolve(Append(aqTakes, Pending), r.woken)
  /\ UNCHANGED << mainVars, aqPushed, aqAtClose, fed, emitted, grown, stateSessionId >>

AqClose ==
  /\ ~aq.closed
  /\ LET r == QueueClose(aq)
     IN /\ aq' = r.q
        /\ aqTakes' = Resolve(aqTakes, r.woken)
  /\ aqAtClose' = [values |-> aq.values, pushes |-> Len(aqPushed),
                   waiting |-> Len(aq.waiters)]
  /\ UNCHANGED << mainVars, aqPushed, fed, emitted, grown, stateSessionId >>

QueueNext == AqPush \/ AqShift \/ AqClose

SpecQueue == Init /\ [][QueueNext]_vars

(***************************************************************************)
(* Multi-call aggregation on its own: a connected, started session between *)
(* turns.  AggRequest is a read_files request travelling from the Service  *)
(* through the tool-request branch to the Host, which runs the calls;      *)
(* AggTurn is Phase 1 of a turn whose prompt carries some of the results   *)
(* the Host holds.                                                         *)
(***************************************************************************)
PathLists ==
  { << Str("a.txt"), Str("b.txt") >>,
    << Str("a.txt"), Str("a.txt") >>,
    << Str(""), Num(7), Str("b.txt") >>,
    << Str("b.txt") >> }

AggInit ==
  /\ workflowId = 2 /\ resumed = FALSE /\ hostHistory = << >>
  /\ socket = 1 /\ queue = 1
  /\ startRequestSent = TRUE /\ pendingApproval = FALSE
  /\ checkpoint = << >> /\ http = {}
  /\ socks = [s \in SockIds |->
                IF s = 1 THEN [state |-> "open", queue |-> 1, owner |-> "ensure",
                               timers |-> TRUE]
                ELSE NoSocket]
  /\ queues = [q \in SockIds |-> NewQueue]
  /\ pendingToolRequests = {} /\ multiCallGroups = << >>
  /\ sentToolCallIds = {} /\ lastSentGoal = "fix it"
  /\ pc = "idle" /\ ret = "none" /\ goal = "" /\ toolResults = << >>
  /\ sentToolResults = FALSE /\ hasText = FALSE /\ event = NoEvent
  /\ out = << >> /\ abortArmed = FALSE /\ taken = << >>
  /\ turns = 1 /\ nActions = 0 /\ nReqs = 0 /\ nFaults = 0
  /\ wire = << >> /\ forwarded = << >> /\ approvalOpen = FALSE
  /\ aq = NewQueue /\ aqPushed = << >> /\ aqTakes = << >> /\ aqAtClose = NotClosed
  /\ fed = 0 /\ emitted = [i \in 1..MaxEntries |-> << >>]
  /\ grown = [i \in 1..MaxEntries |-> TRUE]
  /\ stateSessionId = "ses_a"

AggRequest(fps) ==
  /\ nReqs < MaxReqs
  /\ LET request == mapActionToToolRequest(ReqId(nReqs + 1),
                                           [key |-> "runReadFiles", arg |-> Arr(fps)])
         mapped  == mapDuoToolRequest(request.toolName, request.args)
         ids     == callIds(request.requestId, mapped)
     IN /\ multiCallGroups' = GroupsAfter(multiCallGroups, request.requestId, mapped)
        /\ pendingToolRequests' =
             pendingToolRequests \cup pendingIds(request.requestId, mapped)
        /\ hostHistory' = hostHistory \o HostResults(ids, mapped.calls)
  /\ nReqs' = nReqs + 1
  /\ UNCHANGED << benchVars, sessionVars, objectVars, sentToolCallIds, lastSentGoal,
                  turnVars, turns, nActions, nFaults, histVars >>

\* Phase 1 of a doStream call whose prompt carries the results i..j
AggTurn(i, j) ==
  /\ turns < MaxTurns /\ i <= j
  /\ LET r == Phase1Loop([pending |-> pendingToolRequests, groups |-> multiCallGroups,
                          sent |-> sentToolCallIds, responses |-> << >>,
                          flag |-> FALSE, threw |-> FALSE],
                         FilterFresh(SubSeq(hostHistory, i, j), sentToolCallIds))
     IN /\ pendingToolRequests' = r.pending
        /\ multiCallGroups' = r.groups
        /\ sentToolCallIds' = r.sent
        /\ wire' = ResponseFrames(r.responses)
        /\ forwarded' = forwarded \o ResponseIds(r.responses)
  /\ turns' = turns + 1
  /\ UNCHANGED << benchVars, sessionVars, objectVars, lastSentGoal, turnVars,
                  hostHistory, nActions, nReqs, nFaults, approvalOpen >>

AggNext ==
  \/ \E fps \in PathLists : AggRequest(fps)
  \/ \E i, j \in 1..Len(hostHistory) : AggTurn(i, j)

SpecAgg == AggInit /\ [][AggNext]_vars

(***************************************************************************)
(* The tracking reset: an adapter that serves two connected, started Host  *)
(* sessions in turn.  TrackTurn is a doStream call for sessionID whose      *)
(* prompt carries the first j results the Host holds: the reset on a       *)
(* session change, then Phase 1.                                           *)
(***************************************************************************)
\* a reset that keeps the IDs already sent
resetTracking_keepsSent(sessionID) ==
  [pending |-> IF sessionID # stateSessionId THEN {} ELSE pendingToolRequests,
   groups |-> IF sessionID # stateSessionId THEN << >> ELSE multiCallGroups,
   sent |-> sentToolCallIds,
   lastSentGoal |-> IF sessionID # stateSessionId THEN NoGoal ELSE lastSentGoal,
   stateSessionId |-> sessionID]

\* if (sessionID !== this.#stateSessionId) { clear all four; set the ID }
resetTracking(sessionID) ==
  IF sessionID # stateSessionId
  THEN [pending |-> {}, groups |-> << >>, sent |-> {}, lastSentGoal |-> NoGoal,
        stateSessionId |-> sessionID]
  ELSE [pending |-> pendingToolRequests, groups |-> multiCallGroups,
        sent |-> sentToolCallIds, lastSentGoal |-> lastSentGoal,
        stateSessionId |-> stateSessionId]

TrackTurn(sessionID, j) ==
  /\ turns < MaxTurns
  /\ LET t == resetTracking(sessionID)
         r == Phase1Loop([pending |-> t.pending, groups |-> t.groups, sent |-> t.sent,
                          responses |-> << >>, flag |-> FALSE, threw |-> FALSE],
                         FilterFresh(SubSeq(hostHistory, 1, j), t.sent))
     IN /\ pendingToolRequests' = r.pending
        /\ multiCallGroups' = r.groups
        /\ sentToolCallIds' = r.sent
        /\ lastSentGoal' = t.lastSentGoal
        /\ stateSessionId' = t.stateSessionId
        /\ wire' = ResponseFrames(r.responses)
        /\ forwarded' = forwarded \o ResponseIds(r.responses)
  /\ turns' = turns + 1
  /\ UNCHANGED << sessionVars, objectVars, turnVars, hostHistory, nActions, nReqs,
                  nFaults, approvalOpen, aq, aqPushed, aqTakes, aqAtClose, fed,
                  emitted, grown >>

TrackNext ==
  \/ \E fps \in PathLists : AggRequest(fps)
  \/ \E sessionID \in SessionIDs, j \in 0..Len(hostHistory) : TrackTurn(sessionID, j)

SpecTrack == AggInit /\ [][TrackNext]_vars

(***************************************************************************)
(* extractAgentTextDeltas on its own: one CheckpointState (`checkpoint`)   *)
(* fed a sequence of checkpoint payloads.                                  *)
(***************************************************************************)
Texts == { << >>, << "H" >>, << "H", "i" >> }

\* the entries a ui_chat_log may hold; "bogus" is a message_type that
\* isUiChatLogEntry rejects
LogEntries ==
  {Entry("agent", c) : c \in Texts} \cup {Entry("user", << "H" >>), Entry("bogus", << "H" >>)}

Logs == UNION {[1..n -> LogEntries] : n \in 0..MaxEntries}

\* the `checkpoint` strings of newCheckpoint actions
Snapshots == {[json |-> FALSE, log |-> << >>]} \cup {[json |-> TRUE, log |-> l] : l \in Logs}

\* the entry at index i is an agent entry of `next` that extends, as a
\* prefix, the one the state holds (any agent entry, for the first snapshot)
GrowsAt(next, i) ==
  /\ i <= Len(next) /\ next[i].message_type = "agent"
  /\ fed > 0 => /\ i <= Len(checkpoint) /\ checkpoint[i].message_type = "agent"
                /\ StartsWith(next[i].content, checkpoint[i].content)

\* the loop of extractAgentTextDeltas over the parsed log `next`, its output
\* kept index by index, and `state.uiChatLog = next`
FeedLog(next) ==
  /\ fed < MaxFeeds
  /\ checkpoint' = next
  /\ emitted' = [i \in 1..MaxEntries |->
                   IF i <= Len(next) THEN emitted[i] \o DeltaAt(next, checkpoint, i)
                   ELSE emitted[i]]
  /\ grown' = [i \in 1..MaxEntries |-> grown[i] /\ GrowsAt(next, i)]
  /\ fed' = fed + 1
  /\ UNCHANGED << workflowId, socket, queue, startRequestSent, pendingApproval, resumed,
                  http, objectVars, modelVars, turnVars, envVars, histVars,
                  aq, aqPushed, aqTakes, aqAtClose, stateSessionId >>

\* a differ that leaves its state alone when it cannot read the payload
Feed_skipsUnreadable(raw) ==
  FeedLog(IF raw.json THEN parseCheckpoint(raw) ELSE checkpoint)

\* extractAgentTextDeltas(raw, state)
Feed(raw) == FeedLog(parseCheckpoint(raw))

DifferNext == \E raw \in Snapshots : Feed(raw)

SpecDiffer == Init /\ [][DifferNext]_vars

(***************************************************************************)
(* Properties.  Helpers first.                                             *)
(***************************************************************************)
\* no connect is in flight: ensureConnected and #reconnectWithApproval have
\* run to their end
NoConnectInFlight ==
  /\ pc \notin {"creating", "connecting"}
  /\ \A s \in SockIds : socks[s].state # "connecting"

ReconnectInFlight ==
  \E s \in SockIds : socks[s].state = "connecting" /\ socks[s].owner = "reconnect"

RECURSIVE CallIdsIn(_)
\* the toolCallIds of the tool-call events of a stream, in order
CallIdsIn(stream) ==
  IF stream = << >> THEN << >>
  ELSE (IF Head(stream).type = "tool-call" THEN << Head(stream).toolCallId >> ELSE << >>)
       \o CallIdsIn(Tail(stream))

\* the request a tool-call id belongs to
RequestOf(id) == IF IndexOfSub(id) # 0 THEN OriginalId(id) ELSE id

MappingOf(e) == mapDuoToolRequest(e.toolName, e.args)

LastTaken == taken[Len(taken)]

NoDuplicates(s) == \A i, j \in 1..Len(s) : i # j => s[i] # s[j]

SentBy(by) == {i \in 1..Len(wire) : wire[i].by = by}

\* C1 (as claimed): once no connect is in flight, the session holds a socket
\* reference if and only if it holds an event-queue reference.
C1_SocketIffQueue == NoConnectInFlight => ((socket # 0) <=> (queue # 0))

\* C2 (as claimed): hasStarted is true only while the connection the start
\* request went out on is up: with no socket reference (and no approval
\* reconnect under way) the connection has been torn down and startRequestSent
\* is false.
C2_StartedOnlyWhileConnected ==
  startRequestSent => (socket # 0 \/ ReconnectInFlight)

\* C3: pendingApproval is true only in the window that a tool-approval
\* checkpoint opens and that the next close callback or teardown ends.
C3_PendingOnlyInApprovalWindow == pendingApproval => approvalOpen

\* the close callback has run after an approval: the flag is down again and
\* the reconnect it triggered is under way
C3_Witness == ~pendingApproval /\ ~approvalOpen /\ ReconnectInFlight

\* C4: the step that receives a tool-approval checkpoint closes no queue and
\* keeps the session's queue; a close event while pendingApproval is true
\* constructs exactly one socket, connecting and wired to the closed
\* socket's queue, closes no queue and puts nothing on the Host's stream.
C4_ApprovalReconnectsOnce ==
  [][ /\ (nActions' = nActions + 1 /\ ~pendingApproval /\ pendingApproval')
         => (queue' = queue /\ \A q \in SockIds : queues'[q].closed = queues[q].closed)
      /\ \A s \in SockIds :
           (socks[s].state = "closing" /\ socks'[s].state = "closed" /\ pendingApproval)
           => LET made == {n \in SockIds : socks[n].state = "unused"
                                          /\ socks'[n].state # "unused"}
              IN /\ Cardinality(made) = 1
                 /\ \A n \in made : /\ socks'[n].state = "connecting"
                                    /\ socks'[n].queue = socks[s].queue
                 /\ queues' = queues /\ queue' = queue
                 /\ out' = out /\ pc' = pc ]_vars

\* the turn has waited through the reconnect, with no finish on its stream,
\* and now takes a tool request that came over the reconnected socket
C4_Witness ==
  /\ pc = "got" /\ event.type = "tool-request"
  /\ socket # 0 /\ socks[socket].owner = "reconnect"
  /\ \A i \in 1..Len(out) : out[i].type # "finish"

\* C5: the stream of a turn starts with stream-start; a finish (stop,
\* tool-calls or error) is the last event of the stream and appears only once
\* the call has ended; and a call that has ended has a finish.
C5_SingleFinish ==
  /\ pc # "idle" => (out # << >> /\ out[1].type = "stream-start")
  /\ \A i \in 1..Len(out) :
       /\ out[i].type = "stream-start" => i = 1
       /\ out[i].type = "finish" =>
            /\ i = Len(out) /\ pc = "done"
            /\ out[i].finishReason \in {"stop", "tool-calls", "error"}
  /\ pc = "done" => out[Len(out)].type = "finish"

\* a turn that streamed text and then ended with tool calls
C5_Witness ==
  pc = "done" /\ hasText /\ out[Len(out)] = Finish("tool-calls")

\* C6: among the frames of a turn, every tool result precedes any start
\* request with a goal, and a turn that sent a tool result sends no such
\* start request.
C6_ResultsBeforeGoal ==
  /\ \A i \in SentBy("sendToolResult"), j \in SentBy("sendStartRequest") : i < j
  /\ SentBy("sendToolResult") # {} => SentBy("sendStartRequest") = {}

\* a turn with a new goal has forwarded a result and gone on to Phase 3
C6_Witness ==
  /\ pc \in {"waiting", "got", "done"}
  /\ SentBy("sendToolResult") # {} /\ isNewGoal

C8_ForwardOnce ==
  [][ pc = "phase1" =>
        LET new     == SubSeq(forwarded', Len(forwarded) + 1, Len(forwarded'))
            fresh   == ResultIds(toolResults) \ sentToolCallIds
            singles == {id \in fresh : IndexOfSub(id) = 0 /\ id \in pendingToolRequests}
            groups  == {g \in DOMAIN multiCallGroups :
                          /\ \E k \in 1..Len(multiCallGroups[g].subIds) :
                               multiCallGroups[g].subIds[k] \in fresh
                          /\ \A k \in 1..Len(multiCallGroups[g].subIds) :
                               multiCallGroups[g].subIds[k] \in
                                 fresh \cup DOMAIN multiCallGroups[g].collected}
        IN /\ SeqToSet(new) = singles \cup groups
           /\ Len(new) = Cardinality(singles \cup groups)
           /\ NoDuplicates(forwarded') ]_vars

\* after a teardown and a new connection the Host presents again a result
\* that an earlier turn forwarded, and Phase 1 sends nothing
C8_Witness ==
  /\ pc \in {"waiting", "got", "done"} /\ socket = 2
  /\ forwarded # << >>
  /\ \E id \in ResultIds(toolResults) : RequestOf(id) = forwarded[1]
  /\ SentBy("sendToolResult") = {}

\* C9: a turn that ended on a tool request with a scalar mapping emitted
\* exactly one tool-call, whose toolCallId is the request's ID, and that ID
\* is pending.
C9_ScalarCall ==
  (pc = "done" /\ taken # << >> /\ MappingOf(LastTaken).kind = "scalar") =>
    /\ CallIdsIn(out) = << LastTaken.requestId >>
    /\ LastTaken.requestId \in pendingToolRequests

\* a turn ended on a scalar tool call
C9_Witness ==
  /\ pc = "done" /\ taken # << >> /\ MappingOf(LastTaken).kind = "scalar"
  /\ out[Len(out)] = Finish("tool-calls")

\* C10: a turn that ended on a tool request mapped to an array of N calls
\* emitted N tool-calls with the IDs <reqId>_sub_0 .. <reqId>_sub_(N-1) in
\* order, and the request ID and every sub-ID are pending.
C10_ArrayCalls ==
  (pc = "done" /\ taken # << >> /\ MappingOf(LastTaken).kind = "array") =>
    LET n   == Len(MappingOf(LastTaken).calls)
        req == LastTaken.requestId
    IN /\ CallIdsIn(out) = [i \in 1..n |-> req \o << SUB, ToString(i - 1) >>]
       /\ req \in pendingToolRequests
       /\ \A i \in 0..(n - 1) : (req \o << SUB, ToString(i) >>) \in pendingToolRequests

\* a turn ended on a read_files request with two paths
C10_Witness ==
  /\ pc = "done" /\ taken # << >> /\ MappingOf(LastTaken).kind = "array"
  /\ Len(CallIdsIn(out)) = 2

(***************************************************************************)
(* The queue on its own (SpecQueue).                                       *)
(***************************************************************************)
\* the values the shift() calls have returned so far, in call order
RECURSIVE Delivered(_)
Delivered(takes) ==
  IF takes = << >> THEN << >>
  ELSE (IF Head(takes) \in {Pending, End} THEN << >> ELSE << Head(takes) >>)
       \o Delivered(Tail(takes))

\* the values push() was called with before close()
PushedBeforeClose ==
  IF aqAtClose = NotClosed THEN aqPushed ELSE SubSeq(aqPushed, 1, aqAtClose.pushes)

IsPrefix(s, t) == Len(s) <= Len(t) /\ SubSeq(t, 1, Len(s)) = s

IsSuffix(s, t) == Len(s) <= Len(t) /\ SubSeq(t, Len(t) - Len(s) + 1, Len(t)) = s

\* C12: a push() on a closed queue changes neither the queue nor the result
\* of any shift(); and on a closed queue the buffer is what is left of the
\* buffer as close() found it, every value a shift() returns after close()
\* being taken from it.
C12_ClosedDiscardsPush ==
  [][ /\ (aq.closed /\ aqPushed' # aqPushed) => (aq' = aq /\ aqTakes' = aqTakes)
      /\ aq'.closed =>
           /\ IsSuffix(aq'.values, aqAtClose'.values)
           /\ \A k \in 1..Len(aqTakes') :
                (k > Len(aqTakes) \/ aqTakes'[k] # aqTakes[k]) =>
                  \/ aqTakes'[k] = End
                  \/ aq.closed /\ aqTakes'[k] = Head(aq.values) ]_vars

\* values were pushed after close(), and the consumer has since drained the
\* buffer close() found and reached the end
C12_Witness ==
  /\ aq.closed /\ Len(aqPushed) > aqAtClose.pushes
  /\ aqAtClose.values # << >> /\ aq.values = << >>
  /\ aqTakes # << >> /\ aqTakes[Len(aqTakes)] = End

\* C13: the values the shift() calls return, in call order and leaving out
\* the end marker, are a prefix of the values pushed before close() (so none
\* is returned twice or out of order), and no shift() stays unresolved
\* before one that was resolved.
C13_Fifo ==
  /\ IsPrefix(Delivered(aqTakes), PushedBeforeClose)
  /\ \A j, k \in 1..Len(aqTakes) : (j < k /\ aqTakes[j] = Pending) => aqTakes[k] = Pending

\* two values have been delivered in order and a third shift() is suspended
C13_Witness ==
  /\ Delivered(aqTakes) = << Item(1), Item(2) >>
  /\ Len(aqTakes) = 3 /\ aqTakes[3] = Pending
  /\ aq.waiters = << 3 >>

\* C14: close() resolves every suspended shift() with the end marker; on a
\* closed queue no shift() is suspended; and a shift() called on a closed
\* queue returns at once, the end marker as soon as the buffer close() found
\* is drained.
C14_CloseEndsTakes ==
  [][ /\ (~aq.closed /\ aq'.closed) =>
           \A k \in 1..Len(aqTakes) : aqTakes[k] = Pending => aqTakes'[k] = End
      /\ aq'.closed =>
           /\ aq'.waiters = << >>
           /\ \A k \in 1..Len(aqTakes') : aqTakes'[k] # Pending
      /\ (aq.closed /\ Len(aqTakes') > Len(aqTakes) /\ aq.values = << >>) =>
           aqTakes'[Len(aqTakes')] = End ]_vars

\* close() found two suspended takers; they and a later shift() got the end
C14_Witness ==
  /\ aq.closed /\ aqAtClose.waiting = 2
  /\ aqTakes = << End, End, End >>

(***************************************************************************)
(* The differ on its own (SpecDiffer).                                     *)
(***************************************************************************)
RECURSIVE Flatten(_)
\* the concatenation of a sequence of strings
Flatten(ss) == IF ss = << >> THEN << >> ELSE Head(ss) \o Flatten(Tail(ss))

\* C15: for every index whose entry has been, in every snapshot fed to the
\* one state, an agent entry extending the previous content as a prefix, the
\* deltas emitted for that index concatenate to the entry's latest content.
C15_DeltasConcatenate ==
  \A i \in 1..MaxEntries :
    (fed > 0 /\ grown[i]) => Flatten(emitted[i]) = checkpoint[i].content

\* two snapshots in which entry 1 grew from "H" to "Hi"
C15_Witness ==
  /\ fed = 2 /\ grown[1]
  /\ emitted[1] = << << "H" >>, << "i" >> >>

\* C40: a payload that is empty, unparsable or without a ui_chat_log emits
\* nothing and leaves the empty log as the differ's state; a snapshot fed to
\* a state holding the empty log emits the whole content of each of its
\* non-empty agent entries, whatever was emitted for that index before.
C40_EmptyResets ==
  [][/\ \A raw \in Snapshots :
          (~raw.json /\ Feed(raw)) => (emitted' = emitted /\ checkpoint' = << >>)
     /\ (fed > 0 /\ checkpoint = << >> /\ fed' = fed + 1) =>
          \A i \in 1..Len(checkpoint') :
            emitted'[i] =
              IF checkpoint'[i].message_type = "agent" /\ checkpoint'[i].content # << >>
              THEN Append(emitted[i], checkpoint'[i].content)
              ELSE emitted[i]]_vars

\* "Hi" was emitted for entry 1, the state was emptied, and the next
\* snapshot emitted "Hi" for entry 1 again
C40_Witness ==
  /\ fed = 3 /\ checkpoint = << Entry("agent", << "H", "i" >>) >>
  /\ emitted[1] = << << "H", "i" >>, << "H", "i" >> >>

(***************************************************************************)
(* Multi-call aggregation on its own (SpecAgg).                            *)
(***************************************************************************)
\* what the Host holds as the outcome of call id: its error, else its output
ValueOf(id) ==
  LET r == hostHistory[CHOOSE k \in 1..Len(hostHistory) : hostHistory[k].toolCallId = id]
  IN IF r.error # Undefined THEN r.error ELSE r.output

\* What Phase 1 of one turn does about group g.  If the sub-results it
\* collects in this turn complete the group, exactly one actionResponse goes
\* out for g, an object whose keys are the labels captured at expansion
\* (file_<i> for an empty one) and whose value under a label is the outcome of
\* the last sub-call carrying it, and the group and g's pending entry are
\* deleted; otherwise nothing goes out for g and both stay.  With sizeN the
\* object must also have as many keys as the group has sub-calls.
AggregateOk(g, sizeN) ==
  LET grp  == multiCallGroups[g]
      n    == Len(grp.subIds)
      now  == sentToolCallIds' \ sentToolCallIds
      all  == \A k \in 1..n : grp.subIds[k] \in (DOMAIN grp.collected) \cup now
      some == \E k \in 1..n : grp.subIds[k] \in now
      sentFor == {f \in 1..Len(wire') : wire'[f].id = g}
  IN IF all /\ some
     THEN /\ Cardinality(sentFor) = 1
          /\ \A f \in sentFor :
               LET obj == wire'[f].body.response
               IN /\ wire'[f].ev = "actionResponse"
                  /\ DOMAIN obj = {LabelOf(grp, k - 1) : k \in 1..n}
                  /\ sizeN => Cardinality(DOMAIN obj) = n
                  /\ \A k \in 1..n :
                       (\A k2 \in (k + 1)..n : LabelOf(grp, k2 - 1) # LabelOf(grp, k - 1))
                       => obj[LabelOf(grp, k - 1)].content = ValueOf(grp.subIds[k])
          /\ g \notin DOMAIN multiCallGroups' /\ g \notin pendingToolRequests'
     ELSE /\ sentFor = {}
          /\ g \in DOMAIN multiCallGroups' /\ g \in pendingToolRequests'

\* C11 (as claimed): for a multi-call group of N sub-calls, one actionResponse
\* goes out for the original request ID, in the turn in which the last of the
\* N sub-results is collected and never again; its payload is an object of
\* size N keyed by the labels; the group and the original's pending entry are
\* then deleted.
C11_AggregateSizeN ==
  [][ turns' = turns + 1 =>
        /\ \A g \in DOMAIN multiCallGroups : AggregateOk(g, TRUE)
        /\ NoDuplicates(forwarded') ]_vars

\* C11 (amended): the same, the payload having one key per distinct label
\* (so N keys only when the N labels differ), a later sub-result replacing an
\* earlier one that carries the same label.
C11_AggregateByLabel ==
  [][ turns' = turns + 1 =>
        /\ \A g \in DOMAIN multiCallGroups : AggregateOk(g, FALSE)
        /\ NoDuplicates(forwarded') ]_vars

\* the second of two turns completed a group of two, one sub-result a turn,
\* and sent the aggregate with its two keys
C11_Witness ==
  /\ turns = 3 /\ nReqs = 1
  /\ Len(wire) = 1 /\ wire[1].ev = "actionResponse"
  /\ Cardinality(DOMAIN wire[1].body.response) = 2
  /\ multiCallGroups = << >>

(***************************************************************************)
(* The session and the turn again (Spec).                                  *)
(***************************************************************************)
\* the text-delta events a step hands to the consumer of queue q: the one a
\* suspended shift() of the turn was resolved with, then those it buffered
NewTexts(q) ==
  (IF pc = "waiting" /\ pc' = "got" /\ event'.type = "text-delta"
   THEN << event' >> ELSE << >>)
  \o SubSeq(queues'[q].values, Len(queues[q].values) + 1, Len(queues'[q].values))

\* C16: a checkpoint received while `resumed` is true becomes the checkpoint
\* state and puts no text-delta on any queue; after any checkpoint `resumed`
\* is false; a checkpoint received while it is false puts on the (open) queue
\* of its socket the deltas of its log against the state held before.
C16_ResumedAbsorbsFirst ==
  [][ nActions' = nActions + 1 =>
        /\ ~resumed'
        /\ resumed =>
             /\ \A q \in SockIds : queues'[q].values = queues[q].values
             /\ ~(pc = "waiting" /\ pc' = "got" /\ event'.type = "text-delta")
        /\ ~resumed =>
             \E s \in SockIds :
               /\ CanReceive(s)
               /\ ~queues[socks[s].queue].closed =>
                    NewTexts(socks[s].queue)
                      = TextEvents(DeltasFrom(checkpoint', checkpoint, 1)) ]_vars

\* a resumed session has absorbed a first checkpoint that carries agent text;
\* the turn is still suspended and its queue is empty
C16_Witness ==
  /\ workflowId = 1 /\ nActions = 1 /\ ~resumed
  /\ checkpoint # << >>
  /\ pc = "waiting" /\ queue # 0 /\ queues[queue].values = << >> /\ ~hasText

\* C17 (as claimed): once the abort signal has fired in a turn, the turn does
\* not stay suspended in waitForEvent: whenever it is suspended there, a
\* socket wired to the queue it waits on is closing, so that the close
\* callback will close the queue and the turn will emit its finish.
C17_AbortEndsTurn ==
  (pc = "waiting" /\ ~abortArmed) =>
    \E s \in SockIds : /\ socks[s].state = "closing"
                       /\ queues[socks[s].queue].waiters # << >>

\* C18: in every state, a second abort() right after a first one sends no
\* client event and leaves the sockets and the session fields as the first
\* left them.
C18_AbortIdempotent ==
  LET first  == abort(socks, socket)
      second == abort(first.socks, first.fields.socket)
  IN /\ second.frames = << >>
     /\ second.socks = first.socks
     /\ second.fields = first.fields

\* an abort has just sent stopWorkflow on an open socket and torn down
C18_Witness ==
  /\ wire # << >> /\ wire[Len(wire)].ev = "stopWorkflow" /\ wire[Len(wire)].delivered
  /\ socket = 0 /\ queue = 0 /\ ~abortArmed /\ pc = "waiting"

\* C19: a step in which ensureConnected's connect fails, workflow creation
\* fails, a send finds no connection or the turn takes an error event puts
\* exactly one error event and then finish(error) on the stream and ends the
\* call; and an error event on a stream is always its last but one event,
\* followed by finish(error), on a call that has ended.
C19_ErrorsBecomeFinish ==
  [][ /\ ( \/ \E s \in SockIds : /\ socks[s].state = "connecting"
                                 /\ socks[s].owner = "ensure"
                                 /\ socks'[s].state = "failed"
           \/ pc = "creating" /\ pc' # "creating" /\ workflowId' = 0
           \/ pc \in {"phase1", "phase2send"} /\ pc' = "done"
           \/ pc = "got" /\ event.type = "error" )
         => /\ out' = out \o << [type |-> "error"], Finish("error") >>
            /\ pc' = "done"
      /\ \A i \in 1..Len(out') :
           out'[i].type = "error" =>
             /\ i = Len(out') - 1
             /\ out'[Len(out')] = Finish("error")
             /\ pc' = "done" ]_vars

\* a turn that had streamed text took an error event and ended on it
C19_Witness ==
  /\ pc = "done" /\ hasText /\ event = NoEvent
  /\ out[Len(out)] = Finish("error") /\ out[Len(out) - 1].type = "error"
  /\ socket # 0

\* the events a step put on the queues or handed to the turn
NewEvents ==
  (IF event' # event THEN {event'} ELSE {})
  \cup UNION {SeqToSet(queues'[q].values) \ SeqToSet(queues[q].values) : q \in SockIds}

\* C20: an action that carries a request ID either starts an HTTP request of
\* the session, and then no queue and no turn sees anything of it, or it is
\* no runHTTPRequest action (no event for the HTTP tool is ever produced).
\* While the HTTP request runs, its ID is not pending, no tool-call and no
\* frame carries it; when it settles, at most one frame goes out, an
\* actionResponse of sendHttpResult (an httpResponse) with its ID, and
\* sendHttpResult sends for no other ID.
C20_HttpHandledLocally ==
  [][ /\ nReqs' = nReqs + 1 =>
           \/ /\ http' = http \cup {ReqId(nReqs + 1)}
              /\ queues' = queues /\ event' = event /\ pc' = pc /\ out' = out
              /\ pendingToolRequests' = pendingToolRequests /\ wire' = wire
           \/ /\ http' = http
              /\ \A e \in NewEvents :
                   e.type = "tool-request" => e.toolName # "gitlab_api_request"
      /\ \A id \in http' :
           /\ id \notin pendingToolRequests'
           /\ \A i \in 1..Len(CallIdsIn(out')) : RequestOf(CallIdsIn(out')[i]) # id
           /\ \A f \in 1..Len(wire') : wire'[f].id # id
      /\ \A id \in http \ http' :
           \/ wire' = wire
           \/ /\ Len(wire') = Len(wire) + 1
              /\ wire'[Len(wire')].id = id
              /\ wire'[Len(wire')].ev = "actionResponse"
              /\ wire'[Len(wire')].by = "sendHttpResult"
      /\ \A f \in 1..Len(wire') :
           (f > Len(wire) /\ wire'[f].by = "sendHttpResult") => wire'[f].id \in http \ http'
    ]_vars

\* the session has answered an HTTP request while the turn was waiting, and
\* nothing of the request reached the turn
C20_Witness ==
  /\ pc = "waiting" /\ http = {} /\ nReqs = 1
  /\ \E f \in 1..Len(wire) : wire[f].by = "sendHttpResult" /\ wire[f].delivered
  /\ queues[queue].values = << >> /\ pendingToolRequests = {} /\ taken = << >>

\* C21: a standalone action that carries no requestID, or no payload the
\* session recognises, is dropped: whatever socket it arrives on, handling
\* it pushes nothing on any queue, wakes no turn, puts no frame on the wire,
\* starts no HTTP request and changes no session field, flag or checkpoint.
C21_DroppedWithoutEffect ==
  [][ \/ UNCHANGED << sessionVars, objectVars, modelVars, turnVars, histVars >>
      \/ TurnRunnable
      \/ \A s \in SockIds, payload \in ToolPayloads, withId \in BOOLEAN :
           (~withId \/ payload.key = "unknown") => ~ServiceTool(s, payload, withId)
    ]_vars

\* an action with a requestID and an unrecognised payload has reached the
\* session of a waiting turn: the ID is used up and nothing else happened
C21_Witness ==
  /\ pc = "waiting" /\ turns = 1 /\ nReqs = 1 /\ nActions = 0 /\ nFaults = 0
  /\ socket # 0 /\ http = {} /\ queues[queue].values = << >>
  /\ taken = << >> /\ pendingToolRequests = {}
  /\ \A f \in 1..Len(wire) : wire[f].by # "sendHttpResult"

\* C22: sendToolResult either transmits its actionResponse on an open
\* socket or throws: no call returns normally with the response unsent, so
\* every sendToolResult frame of the turn went out on the wire.
C22_SentOrThrown ==
  \A f \in 1..Len(wire) : wire[f].by = "sendToolResult" => wire[f].delivered

\* C23: the handling of a checkpoint whose status is terminal or a turn
\* boundary hands the consumer of its queue the text deltas the checkpoint
\* branch pushes (those of its log against the state held before; none for
\* the first checkpoint of a resumed session) ahead of the end of the queue,
\* closes that queue, and tears the connection down: the socket the session
\* held is no longer open and its timers are stopped, the socket and queue
\* references are cleared, startRequestSent and pendingApproval are false.
\* A checkpoint with any other status but the tool approval leaves the
\* queue open or closed as it was and the connection untouched.
C23_TurnCompleteTearsDown ==
  [][ \/ nActions' = nActions
      \/ \A s \in SockIds, status \in Statuses :
           LET q == socks[s].queue
               texts == IF resumed THEN << >>
                        ELSE TextEvents(DeltasFrom(checkpoint', checkpoint, 1))
           IN \/ ~CanReceive(s)
              \/ /\ isTurnComplete(status) =>
                      /\ ~queues[q].closed => NewTexts(q) = texts
                      /\ (queues[q].waiters # << >> /\ texts = << >>)
                           => (pc' = "got" /\ event' = End)
                      /\ queues'[q].closed /\ queues'[q].waiters = << >>
                      /\ socket' = 0 /\ queue' = 0
                      /\ ~startRequestSent' /\ ~pendingApproval'
                      /\ socket # 0 => /\ socks'[socket].state # "open"
                                       /\ ~socks'[socket].timers
                 /\ (~isTurnComplete(status) /\ ~isToolApproval(status)) =>
                      /\ UNCHANGED << socket, queue, socks, startRequestSent,
                                      pendingApproval >>
                      /\ queues'[q].closed = queues[q].closed
                      /\ queues'[q].waiters # << >> => pc' = "waiting"
              \/ \A raw \in CkptPayloads : ~ServiceCheckpoint(s, status, raw)
    ]_vars

\* a turn-complete checkpoint that carries agent text has reached a waiting
\* turn: the turn holds the text, the queue behind it is closed, the socket
\* is being closed by the client and the session refers to neither
C23_Witness ==
  /\ nActions = 1 /\ nFaults = 0 /\ socket = 0 /\ queue = 0
  /\ ~startRequestSent /\ ~pendingApproval
  /\ pc = "got" /\ event.type = "text-delta"
  /\ \E s \in SockIds : /\ socks[s].state = "closing" /\ socks[s].owner = "client"
                         /\ ~socks[s].timers
                         /\ queues[socks[s].queue].closed
                         /\ queues[socks[s].queue].values = << >>

\* C24: when the close event of a socket runs the close callback with no
\* approval pending while the turn is suspended on that socket's queue, the
\* session's socket and queue references are cleared, no taker is left on
\* the queue, and the turn's waitForEvent returns the end of the stream;
\* and a turn that holds the end of the stream does nothing but finish:
\* text-end if a text block is open, then finish(stop), and the call ends.
C24_CloseEndsTurn ==
  [][ /\ \A s \in SockIds :
           ( /\ socks[s].state = "closing" /\ socks'[s].state = "closed"
             /\ ~pendingApproval /\ pc = "waiting"
             /\ queues[socks[s].queue].waiters # << >> )
           => /\ socket' = 0 /\ queue' = 0 /\ ~pendingApproval'
              /\ queues'[socks[s].queue].waiters = << >>
              /\ pc' = "got" /\ event' = End
      /\ (pc = "got" /\ event = End) =>
           /\ out' = out \o (IF hasText THEN << [type |-> "text-end"] >> ELSE << >>)
                         \o << [type |-> "finish", finishReason |-> "stop"] >>
           /\ pc' = "done"
    ]_vars

\* the Service ended the connection under a turn that had streamed text:
\* the close callback ran (the session still counts as started, which only
\* a teardown would undo) and the turn closed its text block and stopped
C24_Witness ==
  /\ pc = "done" /\ Len(out) >= 2
  /\ out[Len(out)] = Finish("stop") /\ out[Len(out) - 1].type = "text-end"
  /\ socket = 0 /\ queue = 0 /\ startRequestSent /\ abortArmed /\ nFaults = 1
  /\ \E s \in SockIds : socks[s].state = "closed"

\* C25 (as claimed): the socket ensureConnected opens is released on the
\* abort path: in a call whose abort signal has fired, the session refers to
\* no socket that is open or whose heartbeat and keepalive timers run.
C25_ReleasedAfterAbort ==
  (pc # "idle" /\ ~abortArmed /\ socket # 0)
    => (socks[socket].state # "open" /\ ~socks[socket].timers)

\* C26: a call of ensureConnected on a session that holds both a socket and
\* a queue returns at once and changes nothing of the session or its
\* sockets; on any other session it goes on to create a workflow or to
\* connect, and it creates a workflow only when workflowId is unset.  A
\* workflowId, once set, never changes, whatever reconnects follow.
C26_OneWorkflow ==
  [][ /\ workflowId # 0 => workflowId' = workflowId
      /\ pc' = "creating" => workflowId = 0
      /\ (pc = "idle" /\ pc' # "idle") =>
           IF socket # 0 /\ queue # 0
           THEN pc' = "phase1" /\ UNCHANGED << sessionVars, objectVars >>
           ELSE /\ pc' = (IF workflowId = 0 THEN "creating" ELSE "connecting")
                /\ UNCHANGED << workflowId, socket >>
      /\ (pc = "phase1" /\ pc' \in {"phase2send", "creating", "connecting"}) =>
           IF socket # 0 /\ queue # 0
           THEN pc' = "phase2send" /\ UNCHANGED << sessionVars, objectVars >>
           ELSE /\ pc' = (IF workflowId = 0 THEN "creating" ELSE "connecting")
                /\ UNCHANGED << workflowId, socket >>
      /\ (pc' = "connecting" /\ pc # "connecting") => workflowId' # 0
    ]_vars

\* a session that created its workflow in its first turn is connected again,
\* by a later ensureConnected, under the same workflow ID
C26_Witness ==
  /\ workflowId = 2 /\ turns >= 2 /\ socket = 2
  /\ socks[2].state = "open" /\ socks[2].owner = "ensure" /\ socks[1].owner # "reconnect"

\* the frames a step of the turn added to the wire through sendToolResult
NewResponses == {f \in (Len(wire) + 1)..Len(wire') : wire'[f].by = "sendToolResult"}

\* C28: a turn that begins on a session that has not sent a start request
\* takes for sent exactly the result IDs of its prompt that are not pending
\* (a turn on a started session leaves sentToolCallIds alone).  Phase 1 then
\* forwards no result that was not pending, and it does forward every
\* pending result it has not sent: a single one in a response of its own,
\* one of a multi-call in its group's collection or aggregate.
C28_StaleNeverForwarded ==
  [][ /\ (pc = "idle" /\ pc' # "idle") =>
           sentToolCallIds' =
             IF startRequestSent THEN sentToolCallIds
             ELSE {id \in ResultIds(hostHistory) : id \notin pendingToolRequests}
      /\ pc = "phase1" =>
           /\ \A f \in NewResponses : wire'[f].id \in pendingToolRequests
           /\ \A k \in 1..Len(toolResults) :
                LET id == toolResults[k].toolCallId
                IN (id \in pendingToolRequests /\ id \notin sentToolCallIds /\ pc' # "done")
                     => /\ id \in sentToolCallIds'
                        /\ IF IndexOfSub(id) = 0
                           THEN \E f \in NewResponses : wire'[f].id = id
                           ELSE \/ \E f \in NewResponses : wire'[f].id = OriginalId(id)
                                \/ /\ OriginalId(id) \in DOMAIN multiCallGroups'
                                   /\ id \in DOMAIN multiCallGroups'[OriginalId(id)].collected
    ]_vars

\* the second turn of a resumed session that never sent a start request:
\* its prompt carries the stale results and the result of the call of the
\* first turn; the pending one went to the Service, the stale ones did not
C28_Witness ==
  /\ workflowId = 1 /\ turns = 2 /\ ~startRequestSent /\ nFaults = 0 /\ nActions = 0
  /\ pc = "waiting" /\ Len(toolResults) = 3
  /\ \E f \in 1..Len(wire) : /\ wire[f].by = "sendToolResult" /\ wire[f].delivered
                              /\ wire[f].id = ReqId(1)
  /\ {ReqId(0), SubId(ReqId(0), 0)} \subseteq sentToolCallIds
  /\ \A f \in 1..Len(forwarded) : forwarded[f] = ReqId(1)

\* the start requests doStream has put on the wire in a turn
StartRequests(w) == {f \in 1..Len(w) : w[f].by = "sendStartRequest"}

\* C29: a turn sends at most one start request.  It enters Phase 2 only
\* when Phase 1 forwarded no result and the goal is non-empty and differs
\* from lastSentGoal, and it sends the start request, which carries the
\* goal, only when moreover the session has not started; lastSentGoal then
\* becomes the goal.  lastSentGoal changes in no other way but by being
\* cleared at the start of a turn that finds the session not started.
C29_OneStartRequest ==
  [][ /\ Cardinality(StartRequests(wire')) <= 1
      /\ \A f \in StartRequests(wire') \ StartRequests(wire) :
           /\ pc = "phase2send" /\ ~startRequestSent /\ startRequestSent'
           /\ ~sentToolResults /\ goal # "" /\ goal # lastSentGoal
           /\ \A g \in 1..Len(wire) : wire[g].by # "sendToolResult"
           /\ wire'[f].body = goal /\ lastSentGoal' = goal
      /\ (pc = "phase1" /\ pc' \in {"phase2send", "creating", "connecting"}) =>
           /\ ~sentToolResults' /\ goal # "" /\ goal # lastSentGoal
           /\ \A g \in 1..Len(wire') : wire'[g].by # "sendToolResult"
      /\ lastSentGoal' # lastSentGoal =>
           \/ pc = "idle" /\ ~startRequestSent /\ lastSentGoal' = NoGoal
           \/ pc = "phase2send" /\ lastSentGoal' = goal
    ]_vars

\* a second turn brings the goal the session was started with: it waits for
\* events and has sent nothing
C29_Witness ==
  /\ turns = 2 /\ pc = "waiting" /\ goal = "fix it" /\ lastSentGoal = "fix it"
  /\ startRequestSent /\ wire = << >> /\ ~sentToolResults

\* C30: a failure of the HTTP passthrough is not fatal.  When the fetch of
\* a request fails, or the session has no socket when the fetch settles,
\* the step pushes no event on any queue, wakes no turn, closes no queue
\* and changes no socket, no session field or flag and no tracking state.
\* With a socket, the failed fetch goes to sendHttpResult as one
\* actionResponse for the same requestID, with statusCode 0, no headers, an
\* empty body and the error message (on the wire if the socket is open);
\* with none, nothing is sent.
C30_HttpFailureNotFatal ==
  [][ \/ http' = http
      \/ \A id \in http, ok \in BOOLEAN :
           (HttpSettled(id, ok) /\ (~ok \/ socket = 0)) =>
             /\ UNCHANGED << workflowId, socket, queue, startRequestSent, pendingApproval,
                             resumed, checkpoint, objectVars, modelVars, turnVars >>
             /\ IF socket = 0 THEN wire' = wire
                ELSE /\ Len(wire') = Len(wire) + 1
                     /\ SubSeq(wire', 1, Len(wire)) = wire
                     /\ LET sent == wire'[Len(wire')]
                        IN /\ sent.by = "sendHttpResult" /\ sent.ev = "actionResponse"
                           /\ sent.id = id
                           /\ sent.body = [statusCode |-> 0, headers |-> << >>,
                                           body |-> "", error |-> "fetch failed"]
                           /\ sent.delivered = (socks[socket].state = "open")
    ]_vars

\* the fetch of an HTTP request failed under a waiting turn: the failure
\* went out on the open socket and the turn waits on, its queue open
C30_Witness ==
  /\ pc = "waiting" /\ http = {} /\ nReqs = 1 /\ socket # 0 /\ queue # 0
  /\ socks[socket].state = "open"
  /\ ~queues[queue].closed /\ queues[queue].values = << >>
  /\ wire # << >> /\ wire[Len(wire)].by = "sendHttpResult"
  /\ wire[Len(wire)].delivered /\ wire[Len(wire)].body.statusCode = 0

\* the close event of socket s is delivered in this step
Closes(s) == socks[s].state = "closing" /\ socks'[s].state = "closed"

\* C33 (as claimed): the close callback of a socket that is not the
\* session's socket any more changes neither the session's socket reference
\* nor its queue reference nor pendingApproval, and starts no reconnect.
C33_StaleCloseIgnored ==
  [][ \A s \in SockIds :
        (Closes(s) /\ socket # s) =>
          /\ UNCHANGED << socket, queue, pendingApproval >>
          /\ \A n \in SockIds : socks'[n].state = "connecting" => socks[n].state = "connecting"
    ]_vars

(***************************************************************************)
(* The tracking reset (SpecTrack).                                         *)
(***************************************************************************)
\* the result IDs of a prompt that carries the first j results
PromptIds(j) == ResultIds(SubSeq(hostHistory, 1, j))

\* C27: in a call whose Host session ID differs from stateSessionId the four
\* tracking fields are cleared and stateSessionId is set before Phase 1
\* forwards anything: the call forwards nothing (no request is pending any
\* more), leaves nothing pending and no group, keeps no sent ID but those of
\* its own prompt, and has no last goal.  In a call with the same ID the
\* step clears nothing: every sent ID stays sent, the last goal and the ID
\* stay, and an ID or a group leaves the pending ones only through Phase 1.
C27_ResetOnSessionChange ==
  [][ \A sessionID \in SessionIDs, j \in 0..Len(hostHistory) :
        (turns' = turns + 1 /\ sessionID = stateSessionId' /\ TrackTurn(sessionID, j)) =>
          IF sessionID # stateSessionId
          THEN /\ stateSessionId' = sessionID
               /\ pendingToolRequests' = {} /\ multiCallGroups' = << >>
               /\ lastSentGoal' = NoGoal
               /\ sentToolCallIds' = PromptIds(j)
               /\ wire' = << >> /\ forwarded' = forwarded
          ELSE /\ stateSessionId' = stateSessionId
               /\ lastSentGoal' = lastSentGoal
               /\ sentToolCallIds \subseteq sentToolCallIds'
               /\ sentToolCallIds' \subseteq sentToolCallIds \cup PromptIds(j)
               /\ pendingToolRequests' \subseteq pendingToolRequests
               /\ \A id \in pendingToolRequests \ pendingToolRequests' :
                    \/ id \in PromptIds(j)
                    \/ \E f \in 1..Len(wire') : wire'[f].id = id
               /\ \A g \in DOMAIN multiCallGroups \ DOMAIN multiCallGroups' :
                    \E f \in 1..Len(wire') : wire'[f].id = g
    ]_vars

\* the adapter has forwarded a result for one session and then served the
\* other: what it tracked for the first is gone, though requests were made
C27_Witness ==
  /\ stateSessionId = "ses_b" /\ turns = 3 /\ nReqs > 0
  /\ forwarded # << >> /\ pendingToolRequests = {} /\ multiCallGroups = << >>
  /\ lastSentGoal = NoGoal /\ wire = << >>
  /\ \E id \in SeqToSet(forwarded) : id \notin sentToolCallIds

(***************************************************************************)
(* The approval reconnect (SpecApproval).                                  *)
(***************************************************************************)
\* socket s, connecting for #reconnectWithApproval, settles in this step
ReconnectSettles(s, state) ==
  /\ socks[s].state = "connecting" /\ socks[s].owner = "reconnect"
  /\ socks'[s].state = state

\* C31: when the approval reconnect fails, the queue is closed, so that a
\* turn suspended on it ends, and the session holds neither socket nor
\* queue; when it succeeds, the approval start request (goal "", approval
\* {approval: {}}) goes out on the new socket and startRequestSent is true.
C31_ReconnectOutcome ==
  [][ \A s \in SockIds :
        /\ ReconnectSettles(s, "failed") =>
              /\ queues'[socks[s].queue].waiters = << >>
              /\ queues[socks[s].queue].waiters # << >> => pc' = "got" /\ event' = End
              /\ socket' = 0 /\ queue' = 0
        /\ ReconnectSettles(s, "open") =>
              /\ wire' = Append(wire, ApprovalStart(socks', s))
              /\ wire'[Len(wire')].delivered
              /\ startRequestSent' ]_vars

\* the sockets that are connecting or open
LiveSockets == {s \in SockIds : socks[s].state \in {"connecting", "open"}}

\* C34 (as claimed): the session has at most one live socket, and an open
\* socket is the one the session refers to.
C34_OneLiveSocket ==
  /\ Cardinality(LiveSockets) <= 1
  /\ \A s \in SockIds : socks[s].state = "open" => socket = s

\* C35 (as claimed, for the connection the second turn opens): in a run with
\* no failure and no abort, socket 2 opened by ensureConnected is opened in
\* the second turn, so the turn's frames are all that was ever sent on it;
\* a tool result forwarded on it follows a start request on it.
C35_ResultAfterStart ==
  (turns = 2 /\ nFaults = 0 /\ socks[2].owner = "ensure") =>
    \A i \in SentBy("sendToolResult") :
      (wire[i].sock = 2 /\ wire[i].delivered) =>
        \E j \in 1..(i - 1) : wire[j].ev = "startRequest" /\ wire[j].sock = 2

\* C36 (as claimed): a tool-request event buffered in the session's queue
\* is not lost: after any step it is still buffered in that queue, or the
\* turn has just taken it.
C36_BufferedNotLost ==
  [][ \A q \in SockIds : \A i \in 1..Len(queues[q].values) :
        (q = queue /\ queues[q].values[i].type = "tool-request") =>
          \/ \E k \in 1..Len(queues'[q].values) : queues'[q].values[k] = queues[q].values[i]
          \/ pc' = "got" /\ event' = queues[q].values[i]
    ]_vars

\* the positions of the parts of one type in the turn's stream
PartsOf(type) == {i \in 1..Len(out) : out[i].type = type}

\* text-start at most once and before every text-delta, text-end at most
\* once, after text-start and after every text-delta
TextBlockOrdered ==
  /\ Cardinality(PartsOf("text-start")) <= 1
  /\ Cardinality(PartsOf("text-end")) <= 1
  /\ \A d \in PartsOf("text-delta") : \E s \in PartsOf("text-start") : s < d
  /\ \A e \in PartsOf("text-end") :
       /\ \E s \in PartsOf("text-start") : s < e
       /\ \A d \in PartsOf("text-delta") : d < e

C38_TrackingConsistent ==
  /\ pendingToolRequests \cap sentToolCallIds = {}
  /\ \A g \in DOMAIN multiCallGroups :
       \A k \in 1..Len(multiCallGroups[g].subIds) :
         \/ multiCallGroups[g].subIds[k] \in pendingToolRequests
         \/ multiCallGroups[g].subIds[k] \in DOMAIN multiCallGroups[g].collected

\* a group with one sub-result collected and sent and another still pending
C38_Witness ==
  \E g \in DOMAIN multiCallGroups :
    /\ \E id \in DOMAIN multiCallGroups[g].collected : id \in sentToolCallIds
    /\ \E k \in 1..Len(multiCallGroups[g].subIds) :
         multiCallGroups[g].subIds[k] \in pendingToolRequests

\* the Host's abort signal has fired in the turn that is still running
Aborted == pc # "idle" /\ ~abortArmed

\* C39: once abort() has run in a turn, no client event reaches the Service
\* before the turn is over.
C39_SilentAfterAbort ==
  [][Aborted =>
       \A i \in (Len(wire) + 1)..Len(wire') : ~wire'[i].delivered]_vars

(***************************************************************************)
(* Bridge programs (SpecBridge).                                           *)
(***************************************************************************)
\* the command starts with a bridge program: alone, or followed by a space
CommandAddresses(command) ==
  /\ command.t = "string" /\ Trim(command.v) # << >>
  /\ Head(Trim(command.v)) \in DOMAIN BridgeTool
  /\ (Len(Trim(command.v)) = 1 \/ Trim(command.v)[2] = SP)

\* the program is a bridge program
ProgramAddresses(program) ==
  program.t = "string" /\ Len(program.v) = 1 /\ program.v[1] \in DOMAIN BridgeTool

\* the request addresses a bridge program, in its command or as its program
AddressesBridge(e) ==
  /\ e.toolName \in {"shell_command", "run_command"} /\ ~e.args.null
  /\ \/ CommandAddresses(e.args.command)
     \/ (e.toolName = "run_command" /\ ProgramAddresses(e.args.program))

\* the bridge program the request addresses (the command goes first)
AddressedProgram(e) ==
  IF CommandAddresses(e.args.command) THEN Head(Trim(e.args.command.v))
  ELSE e.args.program.v[1]

NonEmptyString(value) == value.t = "string" /\ value.v # << >>

\* the input of a dedicated Host tool is what the tool's schema asks for
ValidInput(tool, input) ==
  CASE tool = "todoread" -> input = << >>
    [] tool = "todowrite" ->
         /\ DOMAIN input = {"todos"}
         /\ \A i \in 1..Len(input.todos) :
              /\ input.todos[i].content.t = "string"
              /\ NonEmptyString(input.todos[i].status)
              /\ input.todos[i].status.v \in TODO_STATUSES
              /\ NonEmptyString(input.todos[i].priority)
              /\ input.todos[i].priority.v \in TODO_PRIORITIES
    [] tool = "webfetch" ->
         /\ DOMAIN input = {"url", "format", "timeout"}
         /\ NonEmptyString(input.url)
         /\ input.format = Undefined
            \/ (input.format.t = "string" /\ input.format.v \in WEBFETCH_FORMATS)
         /\ input.timeout = Undefined
            \/ (input.timeout.t = "number" /\ input.timeout.v > 0)
    [] tool = "question" ->
         /\ DOMAIN input = {"questions"}
         /\ input.questions # << >>
         /\ \A i \in 1..Len(input.questions) :
              LET q == input.questions[i]
              IN /\ NonEmptyString(q.question) /\ NonEmptyString(q.header)
                 /\ q.options # << >>
                 /\ \A j \in 1..Len(q.options) :
                      /\ NonEmptyString(q.options[j].label)
                      /\ NonEmptyString(q.options[j].description)
                 /\ q.multiple = Undefined \/ q.multiple.t = "boolean"
    [] tool = "skill" ->
         /\ DOMAIN input = {"name"}
         /\ NonEmptyString(input.name) /\ Trim(input.name.v) = input.name.v
    [] OTHER -> FALSE

\* the tool-call parts of a stream
RECURSIVE ToolCallsIn(_)
ToolCallsIn(stream) ==
  IF stream = << >> THEN << >>
  ELSE (IF Head(stream).type = "tool-call" THEN << Head(stream) >> ELSE << >>)
       \o ToolCallsIn(Tail(stream))

\* C32: a shell_command or run_command request that addresses a bridge
\* program, in its command or by its program and arguments[0], does not
\* throw in the mapper: the turn that took it ends with exactly one
\* tool-call, under the request's ID, which is either the program's Host
\* tool with an input its schema accepts or the call "invalid" naming that
\* tool and an error.
C32_BridgeOrInvalid ==
  (taken # << >> /\ AddressesBridge(LastTaken)) =>
    /\ pc = "done"
    /\ Len(ToolCallsIn(out)) = 1
    /\ LET call == ToolCallsIn(out)[1]
           tool == BridgeTool[AddressedProgram(LastTaken)]
       IN /\ call.toolCallId = LastTaken.requestId
          /\ \/ call.toolName = tool /\ ValidInput(tool, call.input.input)
             \/ /\ call.toolName = "invalid"
                /\ call.input.input.tool = tool /\ call.input.input.error # << >>

\* a turn ended on the invalid call for a todo payload with a bad status,
\* sent as arguments[0]
C32_Witness ==
  /\ pc = "done" /\ taken # << >> /\ LastTaken.toolName = "run_command"
  /\ LastTaken.args.program = Str(<< TODO_WRITE_PROGRAM >>)
  /\ LastTaken.args.arguments = Arr(<< Str(<< "todos_status" >>) >>)
  /\ Len(ToolCallsIn(out)) = 1 /\ ToolCallsIn(out)[1].toolName = "invalid"
  /\ ToolCallsIn(out)[1].input.input.tool = "todowrite"

====
